---- MODULE Spec2Model ----
(***************************************************************************)
(* A model of the MCP proxy gateway (src/mcp-proxy): the identity          *)
(* resolver (auth.py), the access-control resolver (tenants.py, db.py),    *)
(* the tool cache and its refresh sweep, the filtered catalog and the      *)
(* request handlers (main.py), and the streamable-HTTP protocol client     *)
(* (mcp_http_client.py).                                                   *)
(*                                                                         *)
(* Strings are the program's strings.  A string operation (split, strip,   *)
(* lower, startswith, slicing, jwt.decode) is modelled by its table over   *)
(* the finite set of strings the model draws its inputs from.              *)
(***************************************************************************)
EXTENDS Integers, Sequences, FiniteSets, TLC

VARIABLES
    API_GATEWAY_MODE,          \* auth.py:41, read once from the environment
    WEBUI_SECRET_KEY,          \* auth.py:38, "" when not configured
    REQUIRE_AUTH_FOR_LISTING,  \* main.py:858
    META_TOOLS_MODE,           \* main.py:49
    request,                   \* the request last handed to the identity resolver
    resolved,                  \* what extract_user_from_headers_optional returned for it
    group_tenant_mapping,      \* rows (group_name, tenant_id) of mcp_proxy.group_tenant_mapping
    user_tenant_access,        \* rows (user_email, tenant_id) of mcp_proxy.user_tenant_access
    access,                    \* the last access-control call on the present rows: arguments and result
    served,                    \* per enabled server, the OpenAPI description it serves now
    TOOLS_CACHE,               \* main.py:44, the set of cached tool entries, keyed by name
    OPENAPI_SCHEMAS_CACHE,     \* main.py:45, the server ids whose raw description is cached
    sweeps,                    \* the refresh_tools_cache calls in flight: where each one stands
    lastFetch,                 \* the last fetch a sweep completed: the server and what came back
    tool_embeddings,           \* rows (tool_name, server_id) of mcp_proxy.tool_embeddings
    resp,                      \* the response of the handler that ran last, and what it did on the way
    sessions,                  \* MCPStreamableClient._sessions: endpoint_url -> (session_id, timestamp)
    now,                       \* time.time(), in seconds since the process started
    calls,                     \* the _request calls in flight: where each one stands
    tenant_server_keys,        \* rows (tenant_id, server_id, key_name, key_value) of mcp_proxy.tenant_server_keys
    tenant_server_endpoints,   \* rows (tenant_id, server_id, endpoint_url) of mcp_proxy.tenant_server_endpoints
    lookup,                    \* the last per-tenant lookup on the present rows: arguments and result
    startup                    \* the lifespan handler: where it stands, its attempts and its delays

configVars == <<API_GATEWAY_MODE, WEBUI_SECRET_KEY, REQUIRE_AUTH_FOR_LISTING, META_TOOLS_MODE>>
identityVars == <<request, resolved>>
storeVars == <<group_tenant_mapping, user_tenant_access>>
accessVars == <<access>>
cacheVars == <<served, TOOLS_CACHE, OPENAPI_SCHEMAS_CACHE, sweeps, lastFetch, tool_embeddings>>
gatewayVars == <<resp>>
clientVars == <<sessions, now, calls>>
credentialVars == <<tenant_server_keys, tenant_server_endpoints, lookup>>
startupVars == <<startup>>
vars == <<configVars, identityVars, storeVars, accessVars, cacheVars, gatewayVars, clientVars,
          credentialVars, startupVars>>

(***************************************************************************)
(* Python's None, for header values, claims and optional results.          *)
(***************************************************************************)
None == "<None>"
NoneUser == [none |-> TRUE]
NoRequest == [none |-> TRUE]
NoClaims == [none |-> TRUE]

\* dict.get(key, default) on a header or claim that may be absent
Get(value, default) == IF value = None THEN default ELSE value

\* Python truthiness of an Optional[str]: None and "" are falsy
Truthy(s) == s # None /\ s # ""

\* a or b, on Optional[str]
Or(a, b) == IF Truthy(a) THEN a ELSE b

(***************************************************************************)
(*                        IDENTITY RESOLVER (auth.py)                      *)
(***************************************************************************)

\* ---- string tables ------------------------------------------------------
\* s.split(",") for the group-header strings of the model
SplitComma(s) ==
    CASE s = ""              -> <<"">>
      [] s = " "             -> <<" ">>
      [] s = "MCP-Admin"     -> <<"MCP-Admin">>
      [] s = "GA"            -> <<"GA">>
      [] s = "GA, GB"        -> <<"GA", " GB">>
      [] s = "GB,,MCP-Admin" -> <<"GB", "", "MCP-Admin">>

\* g.strip() for the pieces SplitComma yields
Strip(g) ==
    CASE g = " "   -> ""
      [] g = " GB" -> "GB"
      [] OTHER     -> g

\* [g.strip() for g in groups_header.split(",") if g.strip()]
ParseGroups(groups_header) ==
    LET pieces == SplitComma(groups_header)
        stripped == [i \in 1..Len(pieces) |-> Strip(pieces[i])]
    IN  SelectSeq(stripped, LAMBDA g : g # "")

\* auth_header.startswith("Bearer ")
StartsWithBearer(auth_header) ==
    auth_header \in {"Bearer tokEmail", "Bearer tokPref", "Bearer tokId", "Bearer tokIdUnknown",
                     "Bearer tokNoId", "Bearer tokExpired", "Bearer tokForged", "Bearer garbage"}

\* auth_header[7:]
DropBearer(auth_header) ==
    CASE auth_header = "Bearer tokEmail"     -> "tokEmail"
      [] auth_header = "Bearer tokPref"      -> "tokPref"
      [] auth_header = "Bearer tokId"        -> "tokId"
      [] auth_header = "Bearer tokIdUnknown" -> "tokIdUnknown"
      [] auth_header = "Bearer tokNoId"      -> "tokNoId"
      [] auth_header = "Bearer tokExpired"   -> "tokExpired"
      [] auth_header = "Bearer tokForged"    -> "tokForged"
      [] auth_header = "Bearer garbage"      -> "garbage"

\* The tokens of the model: who signed them, whether they are past their exp,
\* and their claims.  tokForged carries an admin's email under a wrong signature.
Claims(email, preferred_username, id) ==
    [email |-> email, preferred_username |-> preferred_username, id |-> id]

TokenTable(token) ==
    CASE token = "tokEmail"     -> [wellFormed |-> TRUE, signedWith |-> "secret", expired |-> FALSE,
                                    claims |-> Claims("alice@corp.com", None, "u1")]
      [] token = "tokPref"      -> [wellFormed |-> TRUE, signedWith |-> "secret", expired |-> FALSE,
                                    claims |-> Claims(None, "dave@corp.com", None)]
      [] token = "tokId"        -> [wellFormed |-> TRUE, signedWith |-> "secret", expired |-> FALSE,
                                    claims |-> Claims(None, None, "u2")]
      [] token = "tokIdUnknown" -> [wellFormed |-> TRUE, signedWith |-> "secret", expired |-> FALSE,
                                    claims |-> Claims(None, None, "u9")]
      [] token = "tokNoId"      -> [wellFormed |-> TRUE, signedWith |-> "secret", expired |-> FALSE,
                                    claims |-> Claims(None, None, None)]
      [] token = "tokExpired"   -> [wellFormed |-> TRUE, signedWith |-> "secret", expired |-> TRUE,
                                    claims |-> Claims("alice@corp.com", None, "u1")]
      [] token = "tokForged"    -> [wellFormed |-> TRUE, signedWith |-> "attacker", expired |-> FALSE,
                                    claims |-> Claims("root@corp.com", None, "u0")]
      [] token = "garbage"      -> [wellFormed |-> FALSE, signedWith |-> "", expired |-> FALSE,
                                    claims |-> Claims(None, None, None)]

\* jwt.decode(token, key, algorithms=["HS256"]): the claims, or the exception raised
JwtDecode(token, key) ==
    LET t == TokenTable(token)
    IN  IF ~t.wellFormed THEN [raised |-> "InvalidTokenError"]
        ELSE IF t.signedWith # key THEN [raised |-> "InvalidTokenError"]
        ELSE IF t.expired THEN [raised |-> "ExpiredSignatureError"]
        ELSE [raised |-> None, claims |-> t.claims]

\* Open WebUI's "user" table: SELECT email FROM "user" WHERE id = $1
UserTable(user_id) ==
    CASE user_id = "u1" -> "alice@corp.com"
      [] user_id = "u2" -> "carol@corp.com"
      [] OTHER          -> None

\* ---- the resolver -------------------------------------------------------
UserInfo(email, groups, auth_method) ==
    [email |-> email, entra_groups |-> groups, auth_method |-> auth_method]

\* lookup_email_by_user_id: None when no pool is available or the query raises
lookup_email_by_user_id(user_id, dbUp) ==
    IF ~dbUp THEN None ELSE UserTable(user_id)

\* mutant of _validate_jwt: expired tokens are accepted
validate_jwt_IgnoresExpiry(token) ==
    IF WEBUI_SECRET_KEY = "" THEN NoClaims
    ELSE LET t == TokenTable(token)
         IN  IF t.wellFormed /\ t.signedWith = WEBUI_SECRET_KEY THEN t.claims ELSE NoClaims

\* _validate_jwt: the claims, or None (NoClaims)
validate_jwt(token) ==
    IF WEBUI_SECRET_KEY = "" THEN NoClaims
    ELSE LET d == JwtDecode(token, WEBUI_SECRET_KEY)
         IN  IF d.raised = None THEN d.claims ELSE NoClaims

\* mutant of extract_user_from_entra_token: the groups come from the first
\* non-empty group header, as in the JWT-validated header mode
extract_user_from_entra_token_AnyGroupHeader(req) ==
    IF Get(req.XAuthSource, "") # "entra-token" THEN NoneUser
    ELSE IF ~Truthy(req.XOpenWebUIUserEmail) THEN NoneUser
    ELSE UserInfo(req.XOpenWebUIUserEmail,
                  ParseGroups(Or(req.XOpenWebUIUserGroups,
                                 Or(req.XUserGroups, Or(req.XEntraGroups, "")))),
                  "entra_token")

extract_user_from_entra_token(req) ==
    IF Get(req.XAuthSource, "") # "entra-token" THEN NoneUser
    ELSE IF ~Truthy(req.XOpenWebUIUserEmail) THEN NoneUser
    ELSE UserInfo(req.XOpenWebUIUserEmail,
                  ParseGroups(Get(req.XEntraGroups, "")),
                  "entra_token")

extract_user_from_api_gateway(req) ==
    IF ~Truthy(req.XUserEmail) THEN NoneUser
    ELSE UserInfo(req.XUserEmail, ParseGroups(Get(req.XUserGroups, "")), "api_gateway")

extract_user_from_headers_after_jwt_validation(req) ==
    IF ~Truthy(req.XOpenWebUIUserEmail) THEN NoneUser
    ELSE UserInfo(req.XOpenWebUIUserEmail,
                  ParseGroups(Or(req.XOpenWebUIUserGroups,
                                 Or(req.XUserGroups, Or(req.XEntraGroups, "")))),
                  "jwt_validated_headers")

\* mutant of Mode 3: the identity headers are read before the token is validated
jwt_first_HeadersBeforeToken(req, dbUp) ==
    LET auth_header == Get(req.Authorization, "")
        fromHeaders == extract_user_from_headers_after_jwt_validation(req)
        jwt_claims  == IF StartsWithBearer(auth_header)
                       THEN validate_jwt(DropBearer(auth_header)) ELSE NoClaims
        email       == Or(jwt_claims.email, jwt_claims.preferred_username)
    IN  IF fromHeaders # NoneUser THEN fromHeaders
        ELSE IF jwt_claims = NoClaims THEN NoneUser
        ELSE IF Truthy(email) THEN UserInfo(email, <<>>, "jwt_claims")
        ELSE NoneUser

\* mutant of Mode 3: the token's claims are read before the identity headers
jwt_first_ClaimsBeforeHeaders(req, dbUp) ==
    LET auth_header == Get(req.Authorization, "")
        jwt_claims  == validate_jwt(DropBearer(auth_header))
        fromHeaders == extract_user_from_headers_after_jwt_validation(req)
        email       == Or(jwt_claims.email, jwt_claims.preferred_username)
        user_id     == jwt_claims.id
        dbEmail     == lookup_email_by_user_id(user_id, dbUp)
    IN  IF ~StartsWithBearer(auth_header) THEN NoneUser
        ELSE IF jwt_claims = NoClaims THEN NoneUser
        ELSE IF Truthy(email) THEN UserInfo(email, <<>>, "jwt_claims")
        ELSE IF fromHeaders # NoneUser THEN fromHeaders
        ELSE IF Truthy(user_id) /\ Truthy(dbEmail) THEN UserInfo(dbEmail, <<>>, "jwt_db_lookup")
        ELSE NoneUser

\* Mode 3 of extract_user_from_headers_optional (auth.py:303-366)
jwt_first(req, dbUp) ==
    LET auth_header == Get(req.Authorization, "")
        jwt_claims  == validate_jwt(DropBearer(auth_header))
        fromHeaders == extract_user_from_headers_after_jwt_validation(req)
        email       == Or(jwt_claims.email, jwt_claims.preferred_username)
        user_id     == jwt_claims.id
        dbEmail     == lookup_email_by_user_id(user_id, dbUp)
    IN  IF ~StartsWithBearer(auth_header) THEN NoneUser
        ELSE IF jwt_claims = NoClaims THEN NoneUser
        ELSE IF fromHeaders # NoneUser THEN fromHeaders
        ELSE IF Truthy(email) THEN UserInfo(email, <<>>, "jwt_claims")
        ELSE IF Truthy(user_id) /\ Truthy(dbEmail) THEN UserInfo(dbEmail, <<>>, "jwt_db_lookup")
        ELSE NoneUser

extract_user_from_headers_optional(req, dbUp) ==
    LET entra   == extract_user_from_entra_token(req)
        gateway == extract_user_from_api_gateway(req)
    IN  IF entra # NoneUser THEN entra
        ELSE IF API_GATEWAY_MODE /\ gateway # NoneUser THEN gateway
        ELSE jwt_first(req, dbUp)

\* ---- the requests of the model -----------------------------------------
Requests ==
    [XAuthSource          : {None, "entra-token", "header"},
     XOpenWebUIUserEmail  : {None, "", "erin@corp.com"},
     XEntraGroups         : {None, "GA, GB", "MCP-Admin"},
     XUserEmail           : {None, "bob@corp.com"},
     XUserGroups          : {None, "MCP-Admin"},
     XOpenWebUIUserGroups : {None, " ", "GB,,MCP-Admin"},
     Authorization        : {None, "Basic dXNlcg==", "Bearer tokEmail", "Bearer tokPref",
                             "Bearer tokId", "Bearer tokIdUnknown", "Bearer tokNoId",
                             "Bearer tokExpired", "Bearer tokForged", "Bearer garbage"}]

\* One call of extract_user_from_headers_optional(request); authDbUp records
\* whether the user table could be read during the call
Resolve ==
    \E req \in Requests, dbUp \in BOOLEAN :
        /\ request = NoRequest
        /\ request' = [h \in DOMAIN req \cup {"authDbUp"} |->
                           IF h = "authDbUp" THEN dbUp ELSE req[h]]
        /\ resolved' = extract_user_from_headers_optional(req, dbUp)
        /\ UNCHANGED <<configVars, startupVars, credentialVars, storeVars, accessVars, cacheVars, gatewayVars, clientVars>>

\* The request is over: the UserInfo is per request and is not kept
ResolveDone ==
    /\ request # NoRequest
    /\ request' = NoRequest
    /\ resolved' = NoneUser
    /\ UNCHANGED <<configVars, startupVars, credentialVars, storeVars, accessVars, cacheVars, gatewayVars, clientVars>>

InitConfig ==
    /\ API_GATEWAY_MODE \in BOOLEAN
    /\ WEBUI_SECRET_KEY \in {"", "secret"}
    /\ REQUIRE_AUTH_FOR_LISTING \in BOOLEAN
    /\ META_TOOLS_MODE \in BOOLEAN

InitIdentity ==
    /\ request = NoRequest
    /\ resolved = NoneUser

(***************************************************************************)
(*                 ACCESS CONTROL (tenants.py, db.py)                      *)
(***************************************************************************)

\* ALL_SERVERS: three of its entries, one per case the handlers distinguish.
\* inTenants: the id is also a key of the older TENANTS dict (tenants.py:656).
ALL_SERVERS ==
    [server_id \in {"github", "linear", "slack"} |->
        CASE server_id = "github" -> [enabled |-> TRUE,  tier |-> "local", inTenants |-> TRUE]
          [] server_id = "linear" -> [enabled |-> TRUE,  tier |-> "http",  inTenants |-> FALSE]
          [] server_id = "slack"  -> [enabled |-> FALSE, tier |-> "http",  inTenants |-> FALSE]]

ServerIds == DOMAIN ALL_SERVERS

\* SQL LOWER() on the e-mail addresses of the model
Lower(email) ==
    CASE email = "Alice@Corp.com" -> "alice@corp.com"
      [] email = "ERIN@corp.com"  -> "erin@corp.com"
      [] OTHER                    -> email

\* x in a Python list
InList(x, list) == \E i \in 1..Len(list) : list[i] = x

\* mutant of db.user_has_tenant_access: the rows are those read when the
\* process started (none), not those of the table at the time of the call
db_user_has_tenant_access_StartupSnapshot(email, tenant_id, up) ==
    IF email = "" \/ tenant_id = "" THEN FALSE
    ELSE IF ~up THEN FALSE
    ELSE \E row \in {} :
            Lower(row.user_email) = Lower(email) /\ row.tenant_id = tenant_id

\* db.get_user_access_level / db.user_has_tenant_access: FALSE when the query raises
db_user_has_tenant_access(email, tenant_id, up) ==
    IF email = "" \/ tenant_id = "" THEN FALSE
    ELSE IF ~up THEN FALSE
    ELSE \E row \in user_tenant_access :
            Lower(row.user_email) = Lower(email) /\ row.tenant_id = tenant_id

\* db.group_has_tenant_access: FALSE when the query raises
db_group_has_tenant_access(groups, tenant_id, up) ==
    IF groups = <<>> \/ tenant_id = "" THEN FALSE
    ELSE IF ~up THEN FALSE
    ELSE \E row \in group_tenant_mapping :
            InList(row.group_name, groups) /\ row.tenant_id = tenant_id

\* db.get_user_tenants: [] when the query raises
db_get_user_tenants(email, up) ==
    IF email = "" THEN {}
    ELSE IF ~up THEN {}
    ELSE {row.tenant_id : row \in {r \in user_tenant_access : Lower(r.user_email) = Lower(email)}}

\* db.get_tenants_from_groups: [] when the query raises
db_get_tenants_from_groups(groups, up) ==
    IF groups = <<>> THEN {}
    ELSE IF ~up THEN {}
    ELSE {row.tenant_id : row \in {r \in group_tenant_mapping : InList(r.group_name, groups)}}

\* mutant of user_has_tenant_access_async: the group step returns its own
\* answer, so the e-mail rows are not consulted for a caller that has groups
user_has_tenant_access_async_NoFallThrough(user_email, tenant_id, entra_groups, groupUp, userUp) ==
    IF InList("MCP-Admin", entra_groups)
    THEN [result |-> TRUE, queried |-> {}]
    ELSE IF Len(entra_groups) > 0
    THEN [result |-> db_group_has_tenant_access(entra_groups, tenant_id, groupUp),
          queried |-> {"group_tenant_mapping"}]
    ELSE [result |-> db_user_has_tenant_access(user_email, tenant_id, userUp),
          queried |-> {"user_tenant_access"}]

\* user_has_tenant_access_async: the answer, and the tables it queried on the way
user_has_tenant_access_async(user_email, tenant_id, entra_groups, groupUp, userUp) ==
    IF InList("MCP-Admin", entra_groups)
    THEN [result |-> TRUE, queried |-> {}]
    ELSE IF Len(entra_groups) > 0 /\ db_group_has_tenant_access(entra_groups, tenant_id, groupUp)
    THEN [result |-> TRUE, queried |-> {"group_tenant_mapping"}]
    ELSE [result |-> db_user_has_tenant_access(user_email, tenant_id, userUp),
          queried |-> (IF Len(entra_groups) > 0 THEN {"group_tenant_mapping"} ELSE {})
                          \cup {"user_tenant_access"}]

\* mutant of get_user_tenants_async: the e-mail rows are read only for a
\* caller without groups
get_user_tenants_async_GroupsOrEmail(user_email, entra_groups, groupUp, userUp) ==
    IF InList("MCP-Admin", entra_groups)
    THEN [result |-> ServerIds, queried |-> {}]
    ELSE IF Len(entra_groups) > 0
    THEN [result |-> db_get_tenants_from_groups(entra_groups, groupUp),
          queried |-> {"group_tenant_mapping"}]
    ELSE [result |-> db_get_user_tenants(user_email, userUp),
          queried |-> {"user_tenant_access"}]

\* mutant of get_user_tenants_async: the MCP-Admin shortcut lists the enabled servers only
get_user_tenants_async_EnabledOnly(user_email, entra_groups, groupUp, userUp) ==
    IF InList("MCP-Admin", entra_groups)
    THEN [result |-> {sid \in ServerIds : ALL_SERVERS[sid].enabled}, queried |-> {}]
    ELSE [result |-> (IF Len(entra_groups) > 0
                      THEN db_get_tenants_from_groups(entra_groups, groupUp) ELSE {})
                        \cup db_get_user_tenants(user_email, userUp),
          queried |-> (IF Len(entra_groups) > 0 THEN {"group_tenant_mapping"} ELSE {})
                          \cup {"user_tenant_access"}]

\* get_user_tenants_async: the tenant ids (a list without duplicates, read as a
\* set), and the tables it queried
get_user_tenants_async(user_email, entra_groups, groupUp, userUp) ==
    IF InList("MCP-Admin", entra_groups)
    THEN [result |-> ServerIds, queried |-> {}]
    ELSE [result |-> (IF Len(entra_groups) > 0
                      THEN db_get_tenants_from_groups(entra_groups, groupUp) ELSE {})
                        \cup db_get_user_tenants(user_email, userUp),
          queried |-> (IF Len(entra_groups) > 0 THEN {"group_tenant_mapping"} ELSE {})
                          \cup {"user_tenant_access"}]

\* ---- the rows and callers of the model ---------------------------------
MaxGroupRows == 2
MaxUserRows == 2

GroupNames == {"GA", "GB"}
StoredEmails == {"alice@corp.com", "ERIN@corp.com"}
CallerEmails == {"Alice@Corp.com", "erin@corp.com"}
CallerGroups == {<<>>, <<"GA">>, <<"GA", "GB">>, <<"MCP-Admin">>, <<"GB", "MCP-Admin">>}

NoAccessCall == [op |-> "none"]

\* db.add_group_tenant_mapping: INSERT ... ON CONFLICT DO NOTHING
add_group_tenant_mapping ==
    \E g \in GroupNames, t \in ServerIds :
        /\ Cardinality(group_tenant_mapping \cup {[group_name |-> g, tenant_id |-> t]}) <= MaxGroupRows
        /\ group_tenant_mapping' = group_tenant_mapping \cup {[group_name |-> g, tenant_id |-> t]}
        /\ access' = NoAccessCall
        /\ UNCHANGED <<configVars, startupVars, credentialVars, identityVars, user_tenant_access, cacheVars, gatewayVars, clientVars>>

\* db.remove_group_tenant_mapping
remove_group_tenant_mapping ==
    \E row \in group_tenant_mapping :
        /\ group_tenant_mapping' = group_tenant_mapping \ {row}
        /\ access' = NoAccessCall
        /\ UNCHANGED <<configVars, startupVars, credentialVars, identityVars, user_tenant_access, cacheVars, gatewayVars, clientVars>>

\* db.add_user_tenant_access: INSERT ... ON CONFLICT DO UPDATE
add_user_tenant_access ==
    \E e \in StoredEmails, t \in ServerIds :
        /\ Cardinality(user_tenant_access \cup {[user_email |-> e, tenant_id |-> t]}) <= MaxUserRows
        /\ user_tenant_access' = user_tenant_access \cup {[user_email |-> e, tenant_id |-> t]}
        /\ access' = NoAccessCall
        /\ UNCHANGED <<configVars, startupVars, credentialVars, identityVars, group_tenant_mapping, cacheVars, gatewayVars, clientVars>>

\* DELETE FROM user_tenant_access, by the administrator
remove_user_tenant_access ==
    \E row \in user_tenant_access :
        /\ user_tenant_access' = user_tenant_access \ {row}
        /\ access' = NoAccessCall
        /\ UNCHANGED <<configVars, startupVars, credentialVars, identityVars, group_tenant_mapping, cacheVars, gatewayVars, clientVars>>

\* One call of user_has_tenant_access_async
CanAccess ==
    \E email \in CallerEmails, groups \in CallerGroups, tenant_id \in ServerIds,
       groupUp \in BOOLEAN, userUp \in BOOLEAN :
        /\ access = NoAccessCall
        /\ LET r == user_has_tenant_access_async(email, tenant_id, groups, groupUp, userUp)
           IN  access' = [op |-> "canAccess", user_email |-> email, entra_groups |-> groups,
                          tenant_id |-> tenant_id, groupUp |-> groupUp, userUp |-> userUp,
                          result |-> r.result, queried |-> r.queried]
        /\ UNCHANGED <<configVars, startupVars, credentialVars, identityVars, storeVars, cacheVars, gatewayVars, clientVars>>

\* One call of get_user_tenants_async
ListAccessible ==
    \E email \in CallerEmails, groups \in CallerGroups,
       groupUp \in BOOLEAN, userUp \in BOOLEAN :
        /\ access = NoAccessCall
        /\ LET r == get_user_tenants_async(email, groups, groupUp, userUp)
           IN  access' = [op |-> "listAccessible", user_email |-> email, entra_groups |-> groups,
                          groupUp |-> groupUp, userUp |-> userUp,
                          result |-> r.result, queried |-> r.queried]
        /\ UNCHANGED <<configVars, startupVars, credentialVars, identityVars, storeVars, cacheVars, gatewayVars, clientVars>>

\* The call returned; nothing of it is kept
AccessDone ==
    /\ access # NoAccessCall
    /\ access' = NoAccessCall
    /\ UNCHANGED <<configVars, startupVars, credentialVars, identityVars, storeVars, cacheVars, gatewayVars, clientVars>>

InitStore ==
    /\ group_tenant_mapping = {}
    /\ user_tenant_access = {}

InitAccess == access = NoAccessCall

NextAccess ==
    \/ add_group_tenant_mapping
    \/ remove_group_tenant_mapping
    \/ add_user_tenant_access
    \/ remove_user_tenant_access
    \/ CanAccess
    \/ ListAccessible
    \/ AccessDone

(***************************************************************************)
(* Claims about access control                                             *)
(***************************************************************************)

\* The global-override group
OverrideGroup == "MCP-Admin"

\* AccessStore holds a group-to-tenant mapping for one of the groups and the backend
HoldsGroupMapping(groups, backendId) ==
    \E i \in 1..Len(groups) :
        [group_name |-> groups[i], tenant_id |-> backendId] \in group_tenant_mapping

\* AccessStore holds a user-to-tenant row for the e-mail (compared as the
\* store compares it, without regard to case) and the backend
HoldsUserRow(email, backendId) ==
    \E e \in StoredEmails :
        /\ Lower(e) = Lower(email)
        /\ [user_email |-> e, tenant_id |-> backendId] \in user_tenant_access

\* C4: canAccess is true iff the groups contain the override group, or the
\* group lookup finds a mapping for one of the (non-empty) groups and the
\* backend, or the user lookup finds a row for the e-mail and the backend; a
\* lookup that fails finds nothing; the user lookup is still made when the
\* group step granted nothing.
C4_ThreeTierDecision ==
    access.op = "canAccess" =>
        LET override == \E i \in 1..Len(access.entra_groups) : access.entra_groups[i] = OverrideGroup
            byGroup  == /\ access.entra_groups # <<>>
                        /\ access.groupUp
                        /\ HoldsGroupMapping(access.entra_groups, access.tenant_id)
            byUser   == /\ access.userUp
                        /\ HoldsUserRow(access.user_email, access.tenant_id)
        IN  /\ access.result = (override \/ byGroup \/ byUser)
            /\ (~override /\ ~byGroup) => "user_tenant_access" \in access.queried

\* A caller whose groups grant nothing was granted access by its user row alone
C4_Witness ==
    /\ access.op = "canAccess"
    /\ access.entra_groups = <<"GA", "GB">>
    /\ access.groupUp
    /\ ~HoldsGroupMapping(access.entra_groups, access.tenant_id)
    /\ \E row \in group_tenant_mapping : row.group_name = "GA"
    /\ access.user_email = "Alice@Corp.com"
    /\ HoldsUserRow(access.user_email, access.tenant_id)
    /\ access.result = TRUE

\* C5 as stated: for a caller holding the override group, listAccessibleBackends
\* returns the enabled backend ids, and queries no mapping table.
C5_OverrideListsEnabled ==
    (access.op = "listAccessible" /\ InList(OverrideGroup, access.entra_groups)) =>
        /\ access.result = {sid \in ServerIds : ALL_SERVERS[sid].enabled}
        /\ access.queried = {}

\* C5 amended: for a caller holding the override group, listAccessibleBackends
\* returns every configured backend id, enabled or not, and queries no mapping
\* table, even when no mapping row exists.
C5_OverrideListsAllConfigured ==
    (access.op = "listAccessible" /\ InList(OverrideGroup, access.entra_groups)) =>
        /\ access.result = {"github", "linear", "slack"}
        /\ access.queried = {}

\* An override holder listed its backends while the store held no row at all
C5_Witness ==
    /\ access.op = "listAccessible"
    /\ access.entra_groups = <<"GB", "MCP-Admin">>
    /\ group_tenant_mapping = {}
    /\ user_tenant_access = {}
    /\ "slack" \in access.result
    /\ access.queried = {}

\* C12: over the same AccessStore content, a configured backend is in
\* listAccessibleBackends(identity) iff canAccess(identity, backend) is true:
\* a listing holds exactly the backends canAccess grants, and a canAccess
\* answer is true exactly when the listing holds the backend.
C12_ListAgreesWithCanAccess ==
    /\ access.op = "listAccessible" =>
           \A b \in ServerIds :
               b \in access.result <=>
                   user_has_tenant_access_async(access.user_email, b, access.entra_groups,
                                                access.groupUp, access.userUp).result
    /\ access.op = "canAccess" =>
           (access.result <=>
               access.tenant_id \in get_user_tenants_async(access.user_email, access.entra_groups,
                                                          access.groupUp, access.userUp).result)

\* A caller with groups was listed one backend by a group mapping and another
\* by its user row, and not the third
C12_Witness ==
    /\ access.op = "listAccessible"
    /\ access.entra_groups = <<"GA", "GB">>
    /\ access.user_email = "erin@corp.com"
    /\ access.groupUp /\ access.userUp
    /\ \E b1, b2 \in access.result :
           /\ b1 # b2
           /\ HoldsGroupMapping(access.entra_groups, b1) /\ ~HoldsUserRow(access.user_email, b1)
           /\ HoldsUserRow(access.user_email, b2) /\ ~HoldsGroupMapping(access.entra_groups, b2)
    /\ access.result # ServerIds

(***************************************************************************)
(*                 TOOL CACHE AND REFRESH SWEEP (main.py)                  *)
(***************************************************************************)

\* One operation of an OpenAPI description: a path and a method of it
Op(path, method) == [path |-> path, method |-> method]

\* The descriptions a server of the model may serve (its "paths" object)
Descriptions(server_id) ==
    CASE server_id = "github" ->
            { {Op("/search_repositories", "post"), Op("/health", "post")},
              {Op("/read_file", "post")},
              {Op("/search_repositories", "post"), Op("/read_file", "post")},
              {Op("/repos/list", "post"), Op("/repos_list", "post")} }
      [] server_id = "linear" ->
            { {Op("/list_issues", "post")},
              {Op("/list_issues", "get")} }

\* path.strip("/").replace("/", "_")
OriginalName(path) ==
    CASE path = "/search_repositories" -> "search_repositories"
      [] path = "/read_file"           -> "read_file"
      [] path = "/list_issues"         -> "list_issues"
      [] path = "/health"              -> "health"
      [] path = "/repos/list"          -> "repos_list"
      [] path = "/repos_list"          -> "repos_list"

\* f"{server_id}_{original_name}"
ToolName(server_id, original_name) ==
    CASE server_id = "github" /\ original_name = "search_repositories" -> "github_search_repositories"
      [] server_id = "github" /\ original_name = "read_file"           -> "github_read_file"
      [] server_id = "github" /\ original_name = "health"              -> "github_health"
      [] server_id = "github" /\ original_name = "repos_list"          -> "github_repos_list"
      [] server_id = "linear" /\ original_name = "list_issues"         -> "linear_list_issues"

\* The paths refresh_tools_cache skips
SkippedPaths == {"/health", "/docs", "/openapi.json", "/redoc", "/"}

\* The entry refresh_tools_cache writes for a POST operation
ToolEntry(server_id, path) ==
    [name          |-> ToolName(server_id, OriginalName(path)),
     original_name |-> OriginalName(path),
     original_path |-> path,
     tenant_id     |-> server_id]

\* The place of a path among the keys of "paths", which the loop of line 117
\* follows: /repos/list comes before /repos_list in the description that
\* holds both
DocumentOrder(path) ==
    CASE path = "/repos/list" -> 1
      [] path = "/repos_list" -> 2
      [] OTHER                -> 0

\* The entries lines 117-137 leave for one description: TOOLS_CACHE[tool_name]
\* is assigned for every POST operation in turn, so of two operations with
\* one tool name the later one stays
ExtractTools(server_id, openapi) ==
    LET written == {ToolEntry(server_id, op.path) :
                       op \in {o \in openapi : o.path \notin SkippedPaths /\ o.method = "post"}}
    IN  {e \in written :
            \A f \in written :
                f.name = e.name => DocumentOrder(f.original_path) <= DocumentOrder(e.original_path)}

\* TOOLS_CACHE[tool_name] = {...} for every entry of a set with distinct names
PutAll(cache, entries) ==
    {t \in cache : \A e \in entries : e.name # t.name} \cup entries

\* Lines 113-137 for one fetched description: the cache after them
StoreFetched(cache, server_id, openapi) ==
    PutAll(cache, ExtractTools(server_id, openapi))

\* enabled_servers, in the order of ALL_SERVERS
EnabledServers == <<"linear", "github">>

MaxConcurrentRefresh == 2
Sweepers == 1..MaxConcurrentRefresh

NoFetch == [server_id |-> "none"]
IdleSweep == [pc |-> "idle", todo |-> <<>>]

\* refresh_tools_cache is entered (POST /refresh, or the startup sweep)
RefreshStart(s) ==
    /\ sweeps[s].pc = "idle"
    /\ sweeps' = [sweeps EXCEPT ![s] = [pc |-> "fetching", todo |-> EnabledServers]]
    /\ UNCHANGED <<configVars, startupVars, credentialVars, identityVars, storeVars, accessVars,
                   served, TOOLS_CACHE, OPENAPI_SCHEMAS_CACHE, lastFetch, tool_embeddings, gatewayVars, clientVars>>

\* The fetch of the next enabled server comes back and lines 109-140 run:
\* nothing is stored when it failed (no answer, a non-200 status, an exception)
RefreshFetch(s) ==
    /\ sweeps[s].pc = "fetching"
    /\ sweeps[s].todo # <<>>
    /\ LET server_id == Head(sweeps[s].todo)
       IN  \E ok \in BOOLEAN :
            /\ lastFetch' = [server_id |-> server_id, ok |-> ok,
                             openapi |-> IF ok THEN served[server_id] ELSE {},
                             before |-> {t \in TOOLS_CACHE : t.tenant_id = server_id}]
            /\ TOOLS_CACHE' = IF ok THEN StoreFetched(TOOLS_CACHE, server_id, served[server_id])
                                    ELSE TOOLS_CACHE
            /\ OPENAPI_SCHEMAS_CACHE' = IF ok THEN OPENAPI_SCHEMAS_CACHE \cup {server_id}
                                              ELSE OPENAPI_SCHEMAS_CACHE
    /\ sweeps' = [sweeps EXCEPT ![s].todo = Tail(@)]
    /\ UNCHANGED <<configVars, startupVars, credentialVars, identityVars, storeVars, accessVars, served, tool_embeddings, gatewayVars, clientVars>>

\* The fetch of the next enabled server comes back with status 200 and a JSON
\* value that is truthy but has no "paths" object (a string, {"paths": null}):
\* line 113 stores it, openapi.get("paths", {}).items() at line 117 raises, and
\* nothing in refresh_tools_cache catches the exception
RefreshFetchRaises(s) ==
    /\ sweeps[s].pc = "fetching"
    /\ sweeps[s].todo # <<>>
    /\ LET server_id == Head(sweeps[s].todo)
       IN  /\ lastFetch' = [server_id |-> server_id, ok |-> FALSE, openapi |-> {},
                            before |-> {t \in TOOLS_CACHE : t.tenant_id = server_id}]
           /\ OPENAPI_SCHEMAS_CACHE' = OPENAPI_SCHEMAS_CACHE \cup {server_id}
    /\ sweeps' = [sweeps EXCEPT ![s] = [pc |-> "raised", todo |-> Tail(sweeps[s].todo)]]
    /\ UNCHANGED <<configVars, startupVars, credentialVars, identityVars, storeVars, accessVars, served,
                   TOOLS_CACHE, tool_embeddings, gatewayVars, clientVars>>

\* The exception has left refresh_tools_cache: POST /refresh is answered 500,
\* the servers that were still to be fetched are not fetched
RefreshRaised(s) ==
    /\ sweeps[s].pc = "raised"
    /\ sweeps' = [sweeps EXCEPT ![s] = IdleSweep]
    /\ UNCHANGED <<configVars, startupVars, credentialVars, identityVars, storeVars, accessVars,
                   served, TOOLS_CACHE, OPENAPI_SCHEMAS_CACHE, lastFetch, tool_embeddings,
                   gatewayVars, clientVars>>

\* store_tool_embeddings (tool_embeddings.py): INSERT ... ON CONFLICT (tool_name)
\* DO UPDATE for every cached tool; no row is ever deleted
EmbeddingRows(cache) == {[tool_name |-> t.name, server_id |-> t.tenant_id] : t \in cache}

store_tool_embeddings(table, cache) ==
    {r \in table : \A n \in EmbeddingRows(cache) : n.tool_name # r.tool_name}
        \cup EmbeddingRows(cache)

\* The loop is over: when the cache is not empty the embeddings are stored
\* (an exception there is caught and logged), and refresh_tools_cache returns
RefreshReturn(s) ==
    /\ sweeps[s].pc = "fetching"
    /\ sweeps[s].todo = <<>>
    /\ sweeps' = [sweeps EXCEPT ![s] = IdleSweep]
    /\ \E poolUp \in BOOLEAN :
         tool_embeddings' = IF TOOLS_CACHE # {} /\ poolUp
                            THEN store_tool_embeddings(tool_embeddings, TOOLS_CACHE)
                            ELSE tool_embeddings
    /\ UNCHANGED <<configVars, startupVars, credentialVars, identityVars, storeVars, accessVars,
                   served, TOOLS_CACHE, OPENAPI_SCHEMAS_CACHE, lastFetch, gatewayVars, clientVars>>

\* A server is redeployed and serves another description
BackendChanges ==
    \E server_id \in DOMAIN served :
      \E d \in Descriptions(server_id) :
        /\ d # served[server_id]
        /\ served' = [served EXCEPT ![server_id] = d]
        /\ UNCHANGED <<configVars, startupVars, credentialVars, identityVars, storeVars, accessVars,
                       TOOLS_CACHE, OPENAPI_SCHEMAS_CACHE, sweeps, lastFetch, tool_embeddings, gatewayVars, clientVars>>

InitCache ==
    /\ served \in [{"linear", "github"} -> UNION {Descriptions(b) : b \in {"linear", "github"}}]
    /\ \A b \in DOMAIN served : served[b] \in Descriptions(b)
    /\ TOOLS_CACHE = {}
    /\ OPENAPI_SCHEMAS_CACHE = {}
    /\ sweeps = [s \in Sweepers |-> IdleSweep]
    /\ lastFetch = NoFetch
    /\ tool_embeddings = {}

NextRefresh ==
    \/ \E s \in Sweepers : RefreshStart(s)
    \/ \E s \in Sweepers : RefreshFetch(s)
    \/ \E s \in Sweepers : RefreshReturn(s)
    \/ \E s \in Sweepers : RefreshFetchRaises(s)
    \/ \E s \in Sweepers : RefreshRaised(s)
    \/ BackendChanges

(***************************************************************************)
(* Claims about the tool cache                                             *)
(***************************************************************************)

\* The cached names of a server's tools
CachedNames(server_id) == {t.name : t \in {c \in TOOLS_CACHE : c.tenant_id = server_id}}

\* The names of the tools a description holds: its POST operations outside
\* the skipped paths
DiscoveredNames(server_id, openapi) ==
    {ToolName(server_id, OriginalName(op.path)) :
        op \in {o \in openapi : o.method = "post" /\ o.path \notin SkippedPaths}}

\* C6: when a sweep has fetched and stored a server's description, a reader
\* finds in the cache, for that server, either exactly the tools cached before
\* or exactly the tools of the fetched description, never old and new together.
C6_CacheAtomicity ==
    lastFetch # NoFetch =>
        \/ CachedNames(lastFetch.server_id) = {t.name : t \in lastFetch.before}
        \/ /\ lastFetch.ok
           /\ CachedNames(lastFetch.server_id) =
                  DiscoveredNames(lastFetch.server_id, lastFetch.openapi)

\* C18: whatever the enabled backends answer, refresh_tools_cache does not
\* raise (POST /refresh returns success); a backend whose fetch failed
\* contributed no tool; the tools of a backend whose description was obtained
\* are cached.
C18_RefreshFailureIsolation ==
    /\ \A s \in Sweepers : sweeps[s].pc # "raised"
    /\ (lastFetch # NoFetch /\ ~lastFetch.ok) =>
           CachedNames(lastFetch.server_id) = {t.name : t \in lastFetch.before}
    /\ (lastFetch # NoFetch /\ lastFetch.ok) =>
           DiscoveredNames(lastFetch.server_id, lastFetch.openapi)
               \subseteq CachedNames(lastFetch.server_id)

\* C19: the cache is replaced in one step at the end of a sweep: a step
\* changes TOOLS_CACHE only if it is the step in which a sweep finishes, so the
\* cache is not changed between the fetches of a sweep in progress.
C19_AtomicReplacement ==
    [][TOOLS_CACHE' # TOOLS_CACHE =>
          \E s \in Sweepers : sweeps[s].pc = "fetching" /\ sweeps'[s].pc = "idle"]_vars

\* The sweeps in flight
InFlightSweeps == {s \in Sweepers : sweeps[s].pc # "idle"}

\* C20: at most one sweep is in flight at any time, and no sweep writes the
\* cache while another sweep is in flight.
C20_RefreshSerialization ==
    /\ [](Cardinality(InFlightSweeps) <= 1)
    /\ [][\A s \in Sweepers :
            (sweeps'[s] # sweeps[s] /\ TOOLS_CACHE' # TOOLS_CACHE) => InFlightSweeps \subseteq {s}]_vars

NextIdentity == Resolve \/ ResolveDone

(***************************************************************************)
(* Claims about the identity resolver                                      *)
(***************************************************************************)

\* The key Open WebUI signs its session tokens with
SigningKey == "secret"

\* The request carries a bearer token whose signature is invalid or expired
HasBadBearer(req) ==
    /\ req.Authorization \in {"Bearer tokExpired", "Bearer tokForged"}
    /\ LET t == TokenTable(DropBearer(req.Authorization))
       IN  t.signedWith # SigningKey \/ t.expired

\* The request carries the signed-token assertion: the marker and an asserted email
HasEntraAssertion(req) ==
    /\ req.XAuthSource = "entra-token"
    /\ req.XOpenWebUIUserEmail \notin {None, ""}

\* The group list a value of X-Entra-Groups asserts
AssertedGroups(h) ==
    CASE h = None        -> <<>>
      [] h = "GA, GB"    -> <<"GA", "GB">>
      [] h = "MCP-Admin" -> <<"MCP-Admin">>

\* C1 as stated: a request whose bearer token has an invalid or expired
\* signature resolves to Unauthenticated, whatever other headers it carries.
C1_FailClosedWhateverHeaders ==
    (request # NoRequest /\ HasBadBearer(request)) => resolved = NoneUser

\* C1 amended: a request whose bearer token has an invalid or expired signature
\* resolves to Unauthenticated whenever no higher-priority source matched (it
\* carries no token-source marker with an asserted email, and perimeter-gateway
\* mode is off or it carries no perimeter email header), whatever identity and
\* group headers it carries.
C1_FailClosedInLocalTokenMode ==
    (/\ request # NoRequest
     /\ HasBadBearer(request)
     /\ ~HasEntraAssertion(request)
     /\ ~(API_GATEWAY_MODE /\ request.XUserEmail \notin {None, ""}))
        => resolved = NoneUser

\* A forged token next to identity and group headers was rejected
C1_Witness ==
    /\ request # NoRequest
    /\ request.Authorization = "Bearer tokForged"
    /\ request.XAuthSource = None
    /\ request.XOpenWebUIUserEmail = "erin@corp.com"
    /\ request.XUserEmail = "bob@corp.com"
    /\ request.XUserGroups = "MCP-Admin"
    /\ ~API_GATEWAY_MODE
    /\ WEBUI_SECRET_KEY = "secret"
    /\ resolved = NoneUser

\* The request's bearer token cannot be validated: it is missing, is not a
\* bearer token, is malformed, is expired, is signed with another key, or the
\* proxy has no signing secret configured
TokenNotValidated(req) ==
    \/ req.Authorization \in {None, "Basic dXNlcg==", "Bearer garbage",
                              "Bearer tokExpired", "Bearer tokForged"}
    \/ WEBUI_SECRET_KEY = ""

\* The request carries an identity header
CarriesIdentityHeaders(req) ==
    \/ req.XOpenWebUIUserEmail \notin {None, ""}
    \/ req.XUserEmail # None
    \/ req.XEntraGroups # None
    \/ req.XUserGroups # None
    \/ req.XOpenWebUIUserGroups # None

\* C11: with perimeter-gateway mode off, a request without the token-source
\* marker resolves to Unauthenticated whenever its bearer token is missing,
\* malformed, expired, wrongly signed or no signing secret is configured,
\* whatever identity headers it carries; an identity taken from the headers
\* implies that the token validated.
C11_LocalTokenNeverTrustsHeaders ==
    (/\ request # NoRequest
     /\ request.XAuthSource # "entra-token"
     /\ ~API_GATEWAY_MODE)
        => /\ TokenNotValidated(request) => resolved = NoneUser
           /\ (resolved # NoneUser /\ resolved.auth_method = "jwt_validated_headers")
                  => ~TokenNotValidated(request)

\* Identity headers next to no token, and next to a valid token with no secret
\* configured, were not trusted
C11_Witness ==
    /\ request # NoRequest
    /\ request.XAuthSource = "header"
    /\ ~API_GATEWAY_MODE
    /\ request.XOpenWebUIUserEmail = "erin@corp.com"
    /\ request.XOpenWebUIUserGroups = "GB,,MCP-Admin"
    /\ request.XUserEmail = "bob@corp.com"
    /\ \/ request.Authorization = None /\ WEBUI_SECRET_KEY = "secret"
       \/ request.Authorization = "Bearer tokEmail" /\ WEBUI_SECRET_KEY = ""
    /\ CarriesIdentityHeaders(request)
    /\ resolved = NoneUser

\* C2: a request with the signed-token assertion resolves to exactly the
\* asserted email and the asserted group list, by the signed-token source,
\* whatever perimeter headers, other group headers or bearer token it carries.
C2_PriorityInvariant ==
    (request # NoRequest /\ HasEntraAssertion(request)) =>
        /\ resolved # NoneUser
        /\ resolved.email = request.XOpenWebUIUserEmail
        /\ resolved.entra_groups = AssertedGroups(request.XEntraGroups)
        /\ resolved.auth_method = "entra_token"

\* The assertion won over perimeter headers, another group header and a valid token
C2_Witness ==
    /\ request # NoRequest
    /\ HasEntraAssertion(request)
    /\ request.XEntraGroups = "GA, GB"
    /\ request.XUserEmail = "bob@corp.com"
    /\ request.XUserGroups = "MCP-Admin"
    /\ request.XOpenWebUIUserGroups = "GB,,MCP-Admin"
    /\ request.Authorization = "Bearer tokEmail"
    /\ API_GATEWAY_MODE
    /\ WEBUI_SECRET_KEY = "secret"
    /\ resolved = UserInfo("erin@corp.com", <<"GA", "GB">>, "entra_token")

(***************************************************************************)
(*                    REQUEST HANDLERS AND CATALOG (main.py)               *)
(***************************************************************************)

NoResponse == [route |-> "none"]

InitGateway == resp = NoResponse

\* In a response: the handler returned before it called the identity resolver
NotResolved == [none |-> TRUE, resolver |-> "not called"]

\* In a response: no request was sent to a backend
NoCall == [backend_call |-> FALSE]

\* What a handler answered and what it did on the way: the status, what the
\* resolver returned, the identity the handler went on with, the backend the
\* call was for, the outcome of the access check ("none" when there was none),
\* the request sent to the backend, and the items of a listing
Response(route, status, resolver, user, server_id, check, call, listed) ==
    [route |-> route, status |-> status, resolver |-> resolver, user |-> user,
     server_id |-> server_id, check |-> check, call |-> call, listed |-> listed]

\* raise HTTPException(status_code=status) before any backend call
HTTPException(route, status, resolver, user, server_id, check) ==
    Response(route, status, resolver, user, server_id, check, NoCall, {})

\* ---- string tables ------------------------------------------------------
\* path.strip("/") for the tool paths of the model
StripSlash(path) ==
    CASE path = "/search_repositories" -> "search_repositories"
      [] path = "/read_file"           -> "read_file"
      [] path = "/list_issues"         -> "list_issues"
      [] OTHER                         -> path

\* f"{endpoint_url}/{clean_path}": the path part
Slash(clean_path) ==
    CASE clean_path = "search_repositories" -> "/search_repositories"
      [] clean_path = "read_file"           -> "/read_file"
      [] clean_path = "list_issues"         -> "/list_issues"
      [] clean_path = "repos/list"          -> "/repos/list"

\* ---- JSON bodies --------------------------------------------------------
\* A body is an object nested `wraps` times under the key "arguments"; `leaf`
\* tells whether the innermost value is an object or a string
Body(wraps, leaf) == [wraps |-> wraps, leaf |-> leaf]

\* main.py:1225-1229: if "arguments" in body and isinstance(body["arguments"], dict)
unwrap_arguments(body) ==
    IF body.wraps > 1 \/ (body.wraps = 1 /\ body.leaf = "object")
    THEN [body EXCEPT !.wraps = @ - 1]
    ELSE body

\* ---- calls to a backend -------------------------------------------------
\* What a backend may answer to a POST: a status, or no answer (an exception)
Answers == {"200", "403", "exception"}

\* The status the handler ends with: the JSON of a 200, an HTTPException with
\* the backend's status otherwise, 500 when the POST raised
StatusOf(answer) ==
    CASE answer = "200"       -> 200
      [] answer = "403"       -> 403
      [] answer = "exception" -> 500

\* TENANTS.get(tenant_id) is not None (tenants.py:727)
get_tenant(tenant_id) == tenant_id \in ServerIds /\ ALL_SERVERS[tenant_id].inTenants

\* execute_on_server: POST f"{server.endpoint_url}/{clean_path}"
execute_on_server(server_id, tool_path, body) ==
    [backend_call |-> TRUE, config |-> "ALL_SERVERS", server_id |-> server_id,
     path |-> Slash(StripSlash(tool_path)), json |-> body]

\* execute_tool_on_tenant: POST f"{tenant.mcp_endpoint}{original_path}" for an
\* id of TENANTS, f"{server.endpoint_url}{original_path}" for an enabled
\* server, and {"success": False, ...} without any call otherwise
execute_tool_on_tenant(tenant_id, original_path, arguments) ==
    IF get_tenant(tenant_id)
    THEN [backend_call |-> TRUE, config |-> "TENANTS", server_id |-> tenant_id,
          path |-> original_path, json |-> arguments]
    ELSE IF tenant_id \in ServerIds /\ ALL_SERVERS[tenant_id].enabled
    THEN [backend_call |-> TRUE, config |-> "ALL_SERVERS", server_id |-> tenant_id,
          path |-> original_path, json |-> arguments]
    ELSE NoCall

\* The response once the call (if one was made) came back
Executed(route, resolver, user, server_id, check, call, answer) ==
    Response(route, IF call.backend_call THEN StatusOf(answer) ELSE 200,
             resolver, user, server_id, check, call, {})

\* TOOLS_CACHE.get(tool_name): the entries of that name (none or one)
CacheGet(tool_name) == {t \in TOOLS_CACHE : t.name = tool_name}

\* ---- the execution routes ----------------------------------------------
\* POST /{server_id}/{tool_path:path}
execute_server_tool(in) ==
    IF in.server_id \notin ServerIds
    THEN HTTPException("hierarchical", 404, NotResolved, NotResolved, in.server_id, "none")
    ELSE IF ~ALL_SERVERS[in.server_id].enabled
    THEN HTTPException("hierarchical", 503, NotResolved, NotResolved, in.server_id, "none")
    ELSE
      LET resolver == extract_user_from_headers_optional(in.request, in.authDbUp)
          user == IF resolver = NoneUser /\ Truthy(in.query_email)
                  THEN UserInfo(in.query_email, <<>>, "unknown")
                  ELSE resolver
      IN  IF user = NoneUser
          THEN Executed("hierarchical", resolver, user, in.server_id, "none",
                        execute_on_server(in.server_id, in.tool_path, unwrap_arguments(in.body)),
                        in.answer)
          ELSE IF ~user_has_tenant_access_async(user.email, in.server_id, user.entra_groups,
                                                in.groupUp, in.userUp).result
          THEN HTTPException("hierarchical", 403, resolver, user, in.server_id, "denied")
          ELSE Executed("hierarchical", resolver, user, in.server_id, "granted",
                        execute_on_server(in.server_id, in.tool_path, unwrap_arguments(in.body)),
                        in.answer)

\* mutant of execute_tool_endpoint_legacy: a caller that is not identified is
\* turned away when REQUIRE_AUTH_FOR_LISTING is set
execute_tool_endpoint_legacy_RequireAuth(in) ==
    IF CacheGet(in.tool_name) = {}
    THEN HTTPException("legacy", 404, NotResolved, NotResolved, None, "none")
    ELSE
      LET tool_info == CHOOSE t \in CacheGet(in.tool_name) : TRUE
          tenant_id == tool_info.tenant_id
          user == extract_user_from_headers_optional(in.request, in.authDbUp)
      IN  IF user = NoneUser /\ REQUIRE_AUTH_FOR_LISTING
          THEN HTTPException("legacy", 401, user, user, tenant_id, "none")
          ELSE IF user = NoneUser
          THEN Executed("legacy", user, user, tenant_id, "none",
                        execute_tool_on_tenant(tenant_id, tool_info.original_path, in.body),
                        in.answer)
          ELSE IF ~user_has_tenant_access_async(user.email, tenant_id, user.entra_groups,
                                                in.groupUp, in.userUp).result
          THEN HTTPException("legacy", 403, user, user, tenant_id, "denied")
          ELSE Executed("legacy", user, user, tenant_id, "granted",
                        execute_tool_on_tenant(tenant_id, tool_info.original_path, in.body),
                        in.answer)

\* POST /{tool_name}
execute_tool_endpoint_legacy(in) ==
    IF CacheGet(in.tool_name) = {}
    THEN HTTPException("legacy", 404, NotResolved, NotResolved, None, "none")
    ELSE
      LET tool_info == CHOOSE t \in CacheGet(in.tool_name) : TRUE
          tenant_id == tool_info.tenant_id
          user == extract_user_from_headers_optional(in.request, in.authDbUp)
      IN  IF user = NoneUser
          THEN Executed("legacy", user, user, tenant_id, "none",
                        execute_tool_on_tenant(tenant_id, tool_info.original_path, in.body),
                        in.answer)
          ELSE IF ~user_has_tenant_access_async(user.email, tenant_id, user.entra_groups,
                                                in.groupUp, in.userUp).result
          THEN HTTPException("legacy", 403, user, user, tenant_id, "denied")
          ELSE Executed("legacy", user, user, tenant_id, "granted",
                        execute_tool_on_tenant(tenant_id, tool_info.original_path, in.body),
                        in.answer)

\* mutant of meta_call_tool: the tool is executed without the access check
meta_call_tool_NoAccessCheck(in) ==
    LET user == extract_user_from_headers_optional(in.request, in.authDbUp)
    IN  IF CacheGet(in.tool_name) = {}
        THEN HTTPException("call_tool", 404, user, user, None, "none")
        ELSE
          LET tool_info == CHOOSE t \in CacheGet(in.tool_name) : TRUE
              server_id == tool_info.tenant_id
          IN  Executed("call_tool", user, user, server_id, "none",
                       IF server_id \in ServerIds /\ ALL_SERVERS[server_id].enabled
                       THEN execute_on_server(server_id, StripSlash(tool_info.original_path), in.body)
                       ELSE execute_tool_on_tenant(server_id, tool_info.original_path, in.body),
                       in.answer)

\* POST /meta/call_tool; in.body is the "arguments" member of the request body
meta_call_tool(in) ==
    LET user == extract_user_from_headers_optional(in.request, in.authDbUp)
    IN  IF CacheGet(in.tool_name) = {}
        THEN HTTPException("call_tool", 404, user, user, None, "none")
        ELSE
          LET tool_info == CHOOSE t \in CacheGet(in.tool_name) : TRUE
              server_id == tool_info.tenant_id
              call == IF server_id \in ServerIds /\ ALL_SERVERS[server_id].enabled
                      THEN execute_on_server(server_id, StripSlash(tool_info.original_path), in.body)
                      ELSE execute_tool_on_tenant(server_id, tool_info.original_path, in.body)
          IN  IF user = NoneUser
              THEN Executed("call_tool", user, user, server_id, "none", call, in.answer)
              ELSE IF ~user_has_tenant_access_async(user.email, server_id, user.entra_groups,
                                                    in.groupUp, in.userUp).result
              THEN HTTPException("call_tool", 403, user, user, server_id, "denied")
              ELSE Executed("call_tool", user, user, server_id, "granted", call, in.answer)

\* ---- tool discovery -----------------------------------------------------
\* allowed_servers of the meta handlers: the tenant ids of an identified caller
\* that has some, and None (falsy, as the empty set is) otherwise
allowed_servers_of(user, groupUp, userUp) ==
    IF user = NoneUser THEN {}
    ELSE get_user_tenants_async(user.email, user.entra_groups, groupUp, userUp).result

\* One entry of the describe_tools answer
Description(tool_name, outcome, server_id) ==
    [tool_name |-> tool_name, outcome |-> outcome, server_id |-> server_id]

\* POST /meta/describe_tools
meta_describe_tools(in) ==
    LET user == extract_user_from_headers_optional(in.request, in.authDbUp)
        allowed_servers == allowed_servers_of(user, in.groupUp, in.userUp)
        describe(tool_name) ==
            IF CacheGet(tool_name) = {}
            THEN Description(tool_name, "Tool not found", None)
            ELSE LET tool_info == CHOOSE t \in CacheGet(tool_name) : TRUE
                 IN  IF allowed_servers # {} /\ tool_info.tenant_id \notin allowed_servers
                     THEN Description(tool_name, "Access denied", tool_info.tenant_id)
                     ELSE Description(tool_name, "schema", tool_info.tenant_id)
    IN  Response("describe_tools", 200, user, user, None, "none", NoCall,
                 {describe(in.tool_names[i]) : i \in 1..Len(in.tool_names)})

\* query.lower() in tool_name.lower(), and the same for the description, which
\* is f"{display_name}: {original_name}" for the servers of the model; also
\* tool_name ILIKE %query% of the keyword search
Matches(query, tool_name) ==
    CASE query = "github" -> tool_name \in {"github_search_repositories", "github_read_file"}
      [] query = "list"   -> tool_name = "linear_list_issues"
      [] query = "_"      -> TRUE

\* rows[:limit] of rows whose order the model does not fix: every choice of
\* min(limit, len(rows)) of them
Limit(rows, limit) ==
    {chosen \in SUBSET rows :
        Cardinality(chosen) = IF Cardinality(rows) < limit THEN Cardinality(rows) ELSE limit}

\* search_tools_by_query (tool_embeddings.py:202): the rows of the allowed
\* servers (of all servers when allowed_servers is falsy), nearest first; the
\* keyword search instead when there is no embedding model
search_tools_by_query(query, allowed_servers, limit, embedder) ==
    LET allowed == {r \in tool_embeddings :
                        allowed_servers = {} \/ r.server_id \in allowed_servers}
    IN  IF embedder
        THEN Limit(allowed, limit)
        ELSE Limit({r \in allowed : Matches(query, r.tool_name)}, limit)

\* POST /meta/search_tools: the answers it may give
meta_search_tools(in) ==
    LET user == extract_user_from_headers_optional(in.request, in.authDbUp)
        allowed_servers == allowed_servers_of(user, in.groupUp, in.userUp)
        fallback == {[tool_name |-> t.name, server_id |-> t.tenant_id] :
                        t \in {c \in TOOLS_CACHE :
                                  /\ allowed_servers = {} \/ c.tenant_id \in allowed_servers
                                  /\ Matches(in.query, c.name)}}
    IN  IF user # NoneUser /\ allowed_servers = {}
        THEN {Response("search_tools", 200, user, user, None, "none", NoCall, {})}
        ELSE {Response("search_tools", 200, user, user, None, "none", NoCall, results) :
                results \in IF in.poolUp
                            THEN search_tools_by_query(in.query, allowed_servers, in.limit, in.embedder)
                            ELSE Limit(fallback, in.limit)}

\* GET /tools; extract_user_from_headers raises 401 for a caller not identified
list_tools(in) ==
    LET user == extract_user_from_headers_optional(in.request, in.authDbUp)
    IN  IF user = NoneUser
        THEN HTTPException("list_tools", 401, user, user, None, "none")
        ELSE LET tenant_ids == get_user_tenants_async(user.email, user.entra_groups,
                                                      in.groupUp, in.userUp).result
             IN  Response("list_tools", 200, user, user, None, "none", NoCall,
                          {[tool_name |-> t.name, server_id |-> t.tenant_id] :
                              t \in {c \in TOOLS_CACHE : c.tenant_id \in tenant_ids}})

\* ---- the catalog --------------------------------------------------------
\* One key of "paths" (its segments), or one server whose component schemas
\* are merged into the description
Route(kind, path, server_id) == [kind |-> kind, path |-> path, server_id |-> server_id]

\* The paths every description starts with (main.py:227-251)
FixedRoutes ==
    {Route("fixed", <<seg>>, None) : seg \in {"health", "servers", "refresh"}}

\* The three meta-tool paths (main.py:256-358)
MetaRoutes ==
    {Route("meta", <<"meta", seg>>, None) : seg \in {"search_tools", "describe_tools", "call_tool"}}

\* if user_email: if not await user_has_tenant_access_async(...): continue
Shown(user, server_id, groupUp, userUp) ==
    \/ user = NoneUser
    \/ user_has_tenant_access_async(user.email, server_id, user.entra_groups, groupUp, userUp).result

\* mutant of generate_dynamic_openapi_filtered: the tool routes are not filtered
generate_dynamic_openapi_filtered_AllTools(user, groupUp, userUp) ==
    IF META_TOOLS_MODE
    THEN FixedRoutes \cup MetaRoutes
    ELSE FixedRoutes
           \cup {Route("listing", <<sid>>, sid) :
                    sid \in {s \in ServerIds : Shown(user, s, groupUp, userUp)}}
           \cup {Route("hierarchical", <<t.tenant_id, t.original_name>>, t.tenant_id) : t \in TOOLS_CACHE}
           \cup {Route("flat", <<t.name>>, t.tenant_id) : t \in TOOLS_CACHE}
           \cup {Route("component_schemas", <<"components", "schemas">>, sid) :
                    sid \in OPENAPI_SCHEMAS_CACHE}

\* mutant of generate_dynamic_openapi_filtered: META_TOOLS_MODE is not read
generate_dynamic_openapi_filtered_IgnoresMetaFlag(user, groupUp, userUp) ==
    LET tools == {t \in TOOLS_CACHE : Shown(user, t.tenant_id, groupUp, userUp)}
    IN  FixedRoutes
          \cup {Route("listing", <<sid>>, sid) :
                   sid \in {s \in ServerIds : Shown(user, s, groupUp, userUp)}}
          \cup {Route("hierarchical", <<t.tenant_id, t.original_name>>, t.tenant_id) : t \in tools}
          \cup {Route("flat", <<t.name>>, t.tenant_id) : t \in tools}
          \cup {Route("component_schemas", <<"components", "schemas">>, sid) :
                   sid \in OPENAPI_SCHEMAS_CACHE}

\* generate_dynamic_openapi_filtered(user_email, entra_groups)
generate_dynamic_openapi_filtered(user, groupUp, userUp) ==
    IF META_TOOLS_MODE
    THEN FixedRoutes \cup MetaRoutes
    ELSE LET tools == {t \in TOOLS_CACHE : Shown(user, t.tenant_id, groupUp, userUp)}
         IN  FixedRoutes
               \cup {Route("listing", <<sid>>, sid) :
                        sid \in {s \in ServerIds : Shown(user, s, groupUp, userUp)}}
               \cup {Route("hierarchical", <<t.tenant_id, t.original_name>>, t.tenant_id) : t \in tools}
               \cup {Route("flat", <<t.name>>, t.tenant_id) : t \in tools}
               \cup {Route("component_schemas", <<"components", "schemas">>, sid) :
                        sid \in OPENAPI_SCHEMAS_CACHE}

\* GET /openapi.json
custom_openapi(in) ==
    LET user == extract_user_from_headers_optional(in.request, in.authDbUp)
    IN  Response("openapi", 200, user, user, None, "none", NoCall,
                 generate_dynamic_openapi_filtered(user, in.groupUp, in.userUp))

\* ---- the calls of the model --------------------------------------------
Headers(source, email, entra_groups, gw_email, gw_groups, groups, authorization) ==
    [XAuthSource |-> source, XOpenWebUIUserEmail |-> email, XEntraGroups |-> entra_groups,
     XUserEmail |-> gw_email, XUserGroups |-> gw_groups, XOpenWebUIUserGroups |-> groups,
     Authorization |-> authorization]

\* No credentials; a spoofed e-mail header over a forged token; three callers
\* asserted by the token forwarder; a caller behind the perimeter gateway;
\* three callers with a session token
GatewayRequests ==
    { Headers(None, None, None, None, None, None, None),
      Headers(None, "erin@corp.com", "MCP-Admin", None, "MCP-Admin", None, "Bearer tokForged"),
      Headers("entra-token", "erin@corp.com", None, None, None, None, None),
      Headers("entra-token", "erin@corp.com", "GA, GB", None, None, None, None),
      Headers("entra-token", "erin@corp.com", "MCP-Admin", None, None, None, None),
      Headers(None, None, None, "bob@corp.com", "MCP-Admin", None, None),
      Headers(None, None, None, None, None, None, "Bearer tokEmail"),
      Headers(None, None, None, None, None, None, "Bearer tokId"),
      Headers("header", "erin@corp.com", None, None, None, "GB,,MCP-Admin", "Bearer tokEmail") }

QueryEmails == {None, "", "alice@corp.com"}
ToolPaths == {"search_repositories", "list_issues"}
ToolNames == {"github_search_repositories", "github_read_file", "linear_list_issues"}
Bodies == {Body(0, "object"), Body(1, "object")}
Queries == {"github", "list", "_"}
Limits == {1, 10}

\* A request and whether each database read it leads to succeeds; the "user"
\* table is only read for a token that carries an id and no e-mail
Callers ==
    {c \in [request : GatewayRequests, authDbUp : BOOLEAN, groupUp : BOOLEAN, userUp : BOOLEAN] :
        c.authDbUp \/ c.request.Authorization = "Bearer tokId"}

\* A caller's record with the arguments of the call added
With(caller, args) ==
    [k \in DOMAIN caller \cup DOMAIN args |-> IF k \in DOMAIN args THEN args[k] ELSE caller[k]]

Handled(response) ==
    /\ resp' = response
    /\ UNCHANGED <<configVars, startupVars, credentialVars, identityVars, storeVars, accessVars, cacheVars, clientVars>>

ExecuteServerTool ==
    /\ resp = NoResponse
    /\ \E caller \in Callers, server_id \in ServerIds \cup {"unknown"}, tool_path \in ToolPaths,
          query_email \in QueryEmails, body \in Bodies, answer \in Answers :
           Handled(execute_server_tool(With(caller,
               [server_id |-> server_id, tool_path |-> tool_path, query_email |-> query_email,
                body |-> body, answer |-> answer])))

ExecuteToolEndpointLegacy ==
    /\ resp = NoResponse
    /\ \E caller \in Callers, tool_name \in ToolNames \cup {"github_health"},
          body \in Bodies, answer \in Answers :
           Handled(execute_tool_endpoint_legacy(With(caller,
               [tool_name |-> tool_name, body |-> body, answer |-> answer])))

MetaCallTool ==
    /\ resp = NoResponse
    /\ \E caller \in Callers, tool_name \in ToolNames \cup {"github_health"},
          body \in Bodies, answer \in Answers :
           Handled(meta_call_tool(With(caller,
               [tool_name |-> tool_name, body |-> body, answer |-> answer])))

MetaDescribeTools ==
    /\ resp = NoResponse
    /\ \E caller \in Callers,
          tool_names \in {<<"github_search_repositories">>, <<"linear_list_issues", "github_read_file">>,
                          <<"github_health", "linear_list_issues">>} :
           Handled(meta_describe_tools(With(caller, [tool_names |-> tool_names])))

MetaSearchTools ==
    /\ resp = NoResponse
    /\ \E caller \in Callers, query \in Queries, limit \in Limits,
          embedder \in BOOLEAN, poolUp \in BOOLEAN :
           \E response \in meta_search_tools(With(caller,
                   [query |-> query, limit |-> limit, embedder |-> embedder, poolUp |-> poolUp])) :
               Handled(response)

ListTools ==
    /\ resp = NoResponse
    /\ \E caller \in Callers : Handled(list_tools(caller))

CustomOpenapi ==
    /\ resp = NoResponse
    /\ \E caller \in Callers : Handled(custom_openapi(caller))

\* ---- GET /servers -------------------------------------------------------
\* The JSON of list_all_servers: the listing with its count, its grouping by
\* tier and its message (None when the JSON has none)
ServersJson(resolver, servers, message) ==
    With(Response("servers", 200, resolver, resolver, None,
                  IF resolver = NoneUser THEN "none" ELSE "filtered", NoCall, servers),
         [total_servers |-> Cardinality(servers),
          by_tier |-> [tier \in {ALL_SERVERS[sid].tier : sid \in servers} |->
                          {sid \in servers : ALL_SERVERS[sid].tier = tier}],
          message |-> message])

\* mutant of list_all_servers: REQUIRE_AUTH_FOR_LISTING is not read
list_all_servers_IgnoresFlag(in) ==
    LET user == extract_user_from_headers_optional(in.request, in.authDbUp)
    IN  IF user = NoneUser
        THEN ServersJson(user, ServerIds, None)
        ELSE ServersJson(user,
                {sid \in ServerIds :
                    user_has_tenant_access_async(user.email, sid, user.entra_groups,
                                                 in.groupUp, in.userUp).result},
                None)

\* GET /servers
list_all_servers(in) ==
    LET user == extract_user_from_headers_optional(in.request, in.authDbUp)
    IN  IF user = NoneUser /\ REQUIRE_AUTH_FOR_LISTING
        THEN ServersJson(user, {}, "User not identified.")
        ELSE IF user = NoneUser
        THEN ServersJson(user, ServerIds, None)
        ELSE ServersJson(user,
                {sid \in ServerIds :
                    user_has_tenant_access_async(user.email, sid, user.entra_groups,
                                                 in.groupUp, in.userUp).result},
                None)

ListAllServers ==
    /\ resp = NoResponse
    /\ \E caller \in Callers : Handled(list_all_servers(caller))

\* ---- the router ---------------------------------------------------------
\* The URL paths POSTed to the proxy, as their segments; none is the path of a
\* fixed route
InboundPaths ==
    { <<"github", "search_repositories">>, <<"github", "repos", "list">>,
      <<"slack", "list_issues">>, <<"unknown", "search_repositories">>,
      <<"github_read_file", "read_file">>,
      <<"github_search_repositories">>, <<"github_read_file">>,
      <<"slack_post_message">>, <<"github">>, <<"nothing">> }

\* The JSON bodies POSTed: no wrapper, one, two, and a string under "arguments"
InboundBodies == {Body(0, "object"), Body(1, "object"), Body(2, "object"), Body(1, "string")}

\* The callers of the POSTs: every request of the model, the databases answering
PostCallers == {c \in Callers : c.authDbUp /\ c.groupUp /\ c.userUp}

\* The value of a {tool_path:path} parameter: the segments after the first,
\* joined by "/"
PathParam(path) ==
    CASE Len(path) = 2 -> path[2]
      [] path = <<"github", "repos", "list">> -> "repos/list"

\* mutant of dispatch: a path whose segments, joined by "_", name a cached
\* tool goes to the flat route
dispatch_CachedNameFirst(in) ==
    LET joined == CASE Len(in.path) = 1 -> in.path[1]
                    [] in.path = <<"github", "search_repositories">> -> "github_search_repositories"
                    [] in.path = <<"linear", "list_issues">> -> "linear_list_issues"
                    [] OTHER -> "-"
    IN  IF CacheGet(joined) # {} \/ Len(in.path) = 1
        THEN execute_tool_endpoint_legacy(With(in, [tool_name |-> joined]))
        ELSE execute_server_tool(With(in, [server_id |-> in.path[1],
                                            tool_path |-> PathParam(in.path)]))

\* The router on a POST: the routes are tried in the order of their
\* decorators; "/{server_id}/{tool_path:path}" (main.py:1156) takes a path of
\* two segments or more, "/{tool_name}" (main.py:1243) a path of one segment
dispatch(in) ==
    IF Len(in.path) >= 2
    THEN execute_server_tool(With(in, [server_id |-> in.path[1],
                                       tool_path |-> PathParam(in.path)]))
    ELSE execute_tool_endpoint_legacy(With(in, [tool_name |-> in.path[1]]))

\* The response, with the request that led to it
Of(response, inbound, tool_name, body) ==
    With(response, [inbound |-> inbound, tool_name |-> tool_name, body |-> body])

\* POST of a path that is not a fixed route
PostExecutionPath ==
    /\ resp = NoResponse
    /\ \E caller \in PostCallers, path \in InboundPaths, body \in InboundBodies,
          answer \in Answers :
           Handled(Of(dispatch(With(caller, [path |-> path, query_email |-> None,
                                             body |-> body, answer |-> answer])),
                      path, None, body))

\* POST /meta/call_tool, a fixed route declared before the two above; body is
\* the "arguments" member of the request body
PostMetaCallTool ==
    /\ resp = NoResponse
    /\ \E caller \in PostCallers, tool_name \in ToolNames \cup {"slack_post_message"},
          body \in Bodies, answer \in Answers :
           Handled(Of(meta_call_tool(With(caller, [tool_name |-> tool_name, body |-> body,
                                                   answer |-> answer])),
                      <<"meta", "call_tool">>, tool_name, body))

\* The response is sent; nothing of the request is kept
HandlerReturns ==
    /\ resp # NoResponse
    /\ resp' = NoResponse
    /\ UNCHANGED <<configVars, startupVars, credentialVars, identityVars, storeVars, accessVars, cacheVars, clientVars>>

NextGateway ==
    \/ ExecuteServerTool
    \/ ExecuteToolEndpointLegacy
    \/ MetaCallTool
    \/ MetaDescribeTools
    \/ MetaSearchTools
    \/ ListTools
    \/ CustomOpenapi
    \/ ListAllServers
    \/ PostExecutionPath
    \/ PostMetaCallTool
    \/ HandlerReturns

\* ---- the states the handlers are called in -----------------------------
GroupRow(g, t) == [group_name |-> g, tenant_id |-> t]
UserRow(e, t) == [user_email |-> e, tenant_id |-> t]

\* Contents of the two access tables, each reached by the administrative writes
GatewayStores ==
    { [groups |-> {}, users |-> {}],
      [groups |-> {GroupRow("GA", "github")}, users |-> {UserRow("ERIN@corp.com", "linear")}],
      [groups |-> {GroupRow("GB", "slack"), GroupRow("GA", "linear")},
       users |-> {UserRow("alice@corp.com", "github")}] }

\* What the servers serve; the description in which two operations have one
\* tool name is left to SpecRefresh
ServedChoices ==
    { [server_id \in {"linear", "github"} |->
          IF server_id = "github" THEN g ELSE l] :
        g \in {d \in Descriptions("github") : Op("/repos_list", "post") \notin d},
        l \in Descriptions("linear") }

\* TOOLS_CACHE after one sweep in which every fetch succeeded
SweepResult(d) == StoreFetched(StoreFetched({}, "linear", d["linear"]), "github", d["github"])

\* The process before its first sweep, or after a sweep that went through
InitGatewayCache ==
    /\ served \in ServedChoices
    /\ sweeps = [s \in Sweepers |-> IdleSweep]
    /\ \/ /\ TOOLS_CACHE = {}
          /\ OPENAPI_SCHEMAS_CACHE = {}
          /\ lastFetch = NoFetch
          /\ tool_embeddings = {}
          /\ served["github"] = {Op("/read_file", "post")}
          /\ served["linear"] = {Op("/list_issues", "post")}
       \/ /\ TOOLS_CACHE = SweepResult(served)
          /\ OPENAPI_SCHEMAS_CACHE = {"linear", "github"}
          /\ lastFetch = [server_id |-> "github", ok |-> TRUE, openapi |-> served["github"],
                          before |-> {}]
          /\ tool_embeddings = EmbeddingRows(TOOLS_CACHE)
          /\ \/ served["linear"] = {Op("/list_issues", "post")}
             \/ served["github"] = {Op("/read_file", "post")}

(***************************************************************************)
(* Claims about the handlers and the catalog                               *)
(***************************************************************************)

ExecutionRoutes == {"hierarchical", "legacy", "call_tool"}

\* The handler went on with an identity
Identified(user) == user \notin {NoneUser, NotResolved}

\* canAccess(identity, backend) on the present rows of AccessStore
CanAccessBackend(user, backendId) ==
    \/ InList(OverrideGroup, user.entra_groups)
    \/ HoldsGroupMapping(user.entra_groups, backendId)
    \/ HoldsUserRow(user.email, backendId)

\* C3: on the three execution routes, when the handler has an identity and
\* canAccess(identity, backend) is false the response is 403 and no request is
\* sent to the backend; a request is sent to the backend for an identified
\* caller only after an access check that granted the access.
C3_AccessMandatory ==
    (resp.route \in ExecutionRoutes /\ Identified(resp.user)) =>
        /\ (resp.server_id # None /\ ~CanAccessBackend(resp.user, resp.server_id)) =>
              (resp.status = 403 /\ ~resp.call.backend_call /\ resp.check = "denied")
        /\ resp.call.backend_call =>
              (resp.check = "granted" /\ CanAccessBackend(resp.user, resp.server_id))

\* An identified caller without access was answered 403 before any backend call
C3_Witness ==
    /\ resp.route \in ExecutionRoutes
    /\ Identified(resp.user)
    /\ resp.server_id # None
    /\ ~CanAccessBackend(resp.user, resp.server_id)
    /\ resp.status = 403
    /\ ~resp.call.backend_call

\* C8: in full mode, the description built for an identified caller holds a
\* server listing route, a hierarchical tool route or a flat tool route only
\* for servers the caller can access.
C8_FilteredCatalog ==
    (resp.route = "openapi" /\ ~META_TOOLS_MODE /\ Identified(resp.user)) =>
        \A r \in resp.listed :
            r.kind \in {"listing", "hierarchical", "flat"} =>
                CanAccessBackend(resp.user, r.server_id)

\* A description with tool routes was built for an identified caller while the
\* cache held a tool of a server the caller cannot access
C8_Witness ==
    /\ resp.route = "openapi"
    /\ ~META_TOOLS_MODE
    /\ Identified(resp.user)
    /\ \E r \in resp.listed : r.kind = "hierarchical"
    /\ \E t \in TOOLS_CACHE : ~CanAccessBackend(resp.user, t.tenant_id)

\* C9: for an identified caller, whatever the servers it can access (none
\* included), describe_tools returns the schema of a tool only when the caller
\* can access the tool's server, and search_tools and the tool listing return
\* only tools of servers the caller can access.
C9_TenantIsolationInDiscovery ==
    (resp.route \in {"describe_tools", "search_tools", "list_tools"} /\ Identified(resp.user)) =>
        \A t \in resp.listed :
            IF resp.route = "describe_tools"
            THEN t.outcome = "schema" => CanAccessBackend(resp.user, t.server_id)
            ELSE CanAccessBackend(resp.user, t.server_id)

\* C10 as stated: a tool execution call of a caller that is not identified
\* proceeds only if REQUIRE_AUTH_FOR_LISTING is false; when the flag is true
\* the call is denied and no request is sent to the backend.
C10_AnonymousOnlyIfFlagOff ==
    (resp.route \in ExecutionRoutes /\ resp.user = NoneUser /\ REQUIRE_AUTH_FOR_LISTING) =>
        (~resp.call.backend_call /\ resp.status \in {401, 403})

\* C10, as the handlers have it: a tool execution call of a caller that is
\* not identified (the resolver returned None and, on the hierarchical route,
\* no user_email query parameter was given) for an enabled server or a cached
\* tool proceeds without access check and is sent to the backend, whatever the
\* value of REQUIRE_AUTH_FOR_LISTING.
C10_AnonymousProceedsWhateverFlag ==
    (resp.route \in ExecutionRoutes /\ resp.user = NoneUser /\ resp.server_id # None) =>
        (resp.check = "none" /\ resp.call.backend_call)

\* The flag is set and the call of a caller that is not identified went to the backend
C10_Witness ==
    /\ REQUIRE_AUTH_FOR_LISTING
    /\ resp.route \in ExecutionRoutes
    /\ resp.user = NoneUser
    /\ resp.call.backend_call

(***************************************************************************)
(*          STREAMABLE-HTTP PROTOCOL CLIENT (mcp_http_client.py)           *)
(***************************************************************************)

SESSION_TTL == 3600

\* The clock of the model advances by TickSeconds, up to MaxClock
TickSeconds == 3600
MaxClock == 3600

\* The _request calls that may be in flight together
Calls == {"c1", "c2"}

Endpoints == {"https://mcp.linear.app/mcp"}

\* The Mcp-Session-Id headers a server answers initialize with; "" is no header
SessionIds == {"", "s1", "s2"}

\* response.status_code
InitStatuses == {200, 500}
RpcStatuses == {200, 401, 403, 404, 409, 500}

\* mutant of the statuses taken as an invalid session: a server error too
SessionInvalid_AnyFailure == {401, 403, 404, 409, 500}

\* The statuses _request takes as an invalid session (mcp_http_client.py:203)
SessionInvalid == {401, 403, 404, 409}

\* What _parse_sse_response makes of the text of a 200
Parsed == {"result", "error", "unparsable"}

NoSession == [none |-> TRUE]
IdleCall == [pc |-> "idle"]

\* mutant of _get_cached_session: an entry whose age is the TTL is still used
get_cached_session_AtTTL(dict, endpoint_url, time) ==
    LET entry == dict[endpoint_url]
    IN  IF entry = NoSession
        THEN [session_id |-> None, sessions |-> dict]
        ELSE IF time - entry.ts <= SESSION_TTL
        THEN [session_id |-> entry.session_id, sessions |-> dict]
        ELSE [session_id |-> None, sessions |-> [dict EXCEPT ![endpoint_url] = NoSession]]

\* _get_cached_session: the session id (None when absent or expired) and the
\* dict afterwards, the expired entry deleted
get_cached_session(dict, endpoint_url, time) ==
    LET entry == dict[endpoint_url]
    IN  IF entry = NoSession
        THEN [session_id |-> None, sessions |-> dict]
        ELSE IF time - entry.ts < SESSION_TTL
        THEN [session_id |-> entry.session_id, sessions |-> dict]
        ELSE [session_id |-> None, sessions |-> [dict EXCEPT ![endpoint_url] = NoSession]]

\* _cache_session
cache_session(dict, endpoint_url, session_id, time) ==
    [dict EXCEPT ![endpoint_url] = [session_id |-> session_id, ts |-> time]]

\* mutant of _invalidate_session: the entry stays
invalidate_session_Keeps(dict, endpoint_url) == dict

\* _invalidate_session
invalidate_session(dict, endpoint_url) ==
    [dict EXCEPT ![endpoint_url] = NoSession]

\* A call of _request(method, params) as it is entered: retry_on_auth defaults
\* to True.  The call counts the RPC POSTs it sent, the initialize POSTs it
\* sent (and those sent after an invalidation), its invalidations, and keeps
\* the statuses its RPC POSTs were answered with.
NewCall(endpoint_url) ==
    [pc |-> "entered", endpoint_url |-> endpoint_url, retry_on_auth |-> TRUE,
     session_id |-> None, rpcSent |-> 0, inits |-> 0, reinits |-> 0,
     invalidations |-> 0, statuses |-> <<>>]

\* The RPC POST leaves with the session id the call holds (lines 185-199)
SendRpc(k) == [k EXCEPT !.pc = "rpc_wait", !.rpcSent = @ + 1]

\* _request up to its first await: _ensure_session takes the cached session and
\* the RPC is posted, or initialize posts its request
ensure_session(k, dict, time) ==
    LET cached == get_cached_session(dict, k.endpoint_url, time)
    IN  IF cached.session_id # None
        THEN [call |-> SendRpc([k EXCEPT !.session_id = cached.session_id]),
              sessions |-> cached.sessions]
        ELSE [call |-> [k EXCEPT !.pc = "init_wait", !.inits = @ + 1,
                                 !.reinits = IF k.invalidations > 0 THEN @ + 1 ELSE @],
              sessions |-> cached.sessions]

\* _request is called
RequestStart(c) ==
    /\ calls[c] = IdleCall
    /\ \E endpoint_url \in Endpoints :
        LET e == ensure_session(NewCall(endpoint_url), sessions, now)
        IN  /\ calls' = [calls EXCEPT ![c] = e.call]
            /\ sessions' = e.sessions
    /\ UNCHANGED <<configVars, startupVars, credentialVars, identityVars, storeVars, accessVars, cacheVars, gatewayVars, now>>

\* The answer to initialize arrives (lines 119-139): an exception for a status
\* other than 200 and 201; else the session id is cached when there is one and
\* the initialized notification is posted
InitializeAnswers(c) ==
    /\ calls[c].pc = "init_wait"
    /\ \E status \in InitStatuses, session_id \in SessionIds :
        IF status \notin {200, 201}
        THEN /\ calls' = [calls EXCEPT ![c].pc = "raised"]
             /\ UNCHANGED sessions
        ELSE /\ calls' = [calls EXCEPT ![c].pc = "notify_wait", ![c].session_id = session_id]
             /\ sessions' = IF session_id # ""
                            THEN cache_session(sessions, calls[c].endpoint_url, session_id, now)
                            ELSE sessions
    /\ UNCHANGED <<configVars, startupVars, credentialVars, identityVars, storeVars, accessVars, cacheVars, gatewayVars, now>>

\* The notification was answered, or failed (not fatal): initialize returns
\* and the RPC is posted
InitializedSent(c) ==
    /\ calls[c].pc = "notify_wait"
    /\ calls' = [calls EXCEPT ![c] = SendRpc(calls[c])]
    /\ UNCHANGED <<configVars, startupVars, credentialVars, identityVars, storeVars, accessVars, cacheVars, gatewayVars,
                   sessions, now>>

\* The answer to the RPC arrives (lines 202-223)
RpcAnswers(c) ==
    /\ calls[c].pc = "rpc_wait"
    /\ \E status \in RpcStatuses, parsed \in Parsed :
        LET k == [calls[c] EXCEPT !.statuses = Append(@, status)]
        IN  IF status \in SessionInvalid /\ k.retry_on_auth
            THEN LET e == ensure_session(
                            [k EXCEPT !.retry_on_auth = FALSE, !.invalidations = @ + 1,
                                      !.session_id = None],
                            invalidate_session(sessions, k.endpoint_url), now)
                 IN  /\ calls' = [calls EXCEPT ![c] = e.call]
                     /\ sessions' = e.sessions
            ELSE /\ calls' = [calls EXCEPT ![c] =
                                [k EXCEPT !.pc = IF status \in {200, 201} /\ parsed = "result"
                                                 THEN "returned" ELSE "raised"]]
                 /\ UNCHANGED sessions
    /\ UNCHANGED <<configVars, startupVars, credentialVars, identityVars, storeVars, accessVars, cacheVars, gatewayVars, now>>

\* The caller has the result or the exception
RequestReturns(c) ==
    /\ calls[c].pc \in {"returned", "raised"}
    /\ calls' = [calls EXCEPT ![c] = IdleCall]
    /\ UNCHANGED <<configVars, startupVars, credentialVars, identityVars, storeVars, accessVars, cacheVars, gatewayVars,
                   sessions, now>>

\* Time passes
Tick ==
    /\ now + TickSeconds <= MaxClock
    /\ now' = now + TickSeconds
    /\ UNCHANGED <<configVars, startupVars, credentialVars, identityVars, storeVars, accessVars, cacheVars, gatewayVars,
                   sessions, calls>>

InitClient ==
    /\ sessions = [endpoint_url \in Endpoints |-> NoSession]
    /\ now = 0
    /\ calls = [c \in Calls |-> IdleCall]

\* What a call in flight does next; every await of it ends, with an answer or
\* with the exception of the 30 s timeout
ClientStep(c) == InitializeAnswers(c) \/ InitializedSent(c) \/ RpcAnswers(c)

NextClient ==
    \/ \E c \in Calls : RequestStart(c)
    \/ \E c \in Calls : InitializeAnswers(c)
    \/ \E c \in Calls : InitializedSent(c)
    \/ \E c \in Calls : RpcAnswers(c)
    \/ \E c \in Calls : RequestReturns(c)
    \/ Tick

(***************************************************************************)
(* Claims about the protocol client                                        *)
(***************************************************************************)

InFlight(c) == calls[c].pc \notin {"idle", "returned", "raised"}
Over(c) == calls[c].pc \in {"returned", "raised"}

\* Both RPC POSTs of the call were answered with a session-invalid status
BothAttemptsInvalid(c) ==
    /\ calls[c] # IdleCall
    /\ Len(calls[c].statuses) = 2
    /\ calls[c].statuses[1] \in SessionInvalid
    /\ calls[c].statuses[2] \in SessionInvalid

RetryBounded ==
    \A c \in Calls :
        calls[c] # IdleCall =>
            /\ calls[c].rpcSent <= 2
            /\ BothAttemptsInvalid(c) =>
                  /\ calls[c].pc = "raised"
                  /\ calls[c].invalidations = 1
                  /\ calls[c].reinits = 1

\* C7: when the backend answers the first attempt and the retry with a
\* session-invalid status, _request raises after exactly one invalidation and
\* one re-initialization; no call sends its RPC more than twice; and every
\* call of _request comes to an end.
C7_SessionRetryBound ==
    /\ []RetryBounded
    /\ \A c \in Calls : InFlight(c) ~> Over(c)

\* A call whose two attempts were answered 401 or 409 has raised
C7_Witness ==
    \E c \in Calls : BothAttemptsInvalid(c) /\ calls[c].pc = "raised" /\ calls[c].rpcSent = 2

(***************************************************************************)
(*          PER-TENANT CREDENTIALS AND ENDPOINT OVERRIDES (db.py)          *)
(***************************************************************************)

MaxCredentialRows == 3

CredentialTenants == {"Tenant-A", "Tenant-B"}
CredentialServers == {"github", "linear"}
KeyNames == {"GITHUB_TOKEN", "GITHUB_HOST"}
KeyValues == {"ka", "kb"}
EndpointUrls == {"http://mcp-github-a:8000", "http://mcp-github-b:8000"}

\* The candidate lists a caller hands over, in its priority order
CandidateLists ==
    {<<>>, <<"Tenant-A">>, <<"Tenant-A", "Tenant-B">>, <<"Tenant-B", "Tenant-A">>,
     <<"Tenant-C", "Tenant-B", "Tenant-A">>, <<"Tenant-B", "Tenant-B", "Tenant-A">>}

KeyRow(tenant_id, server_id, key_name, key_value) ==
    [tenant_id |-> tenant_id, server_id |-> server_id,
     key_name |-> key_name, key_value |-> key_value]

EndpointRow(tenant_id, server_id, endpoint_url) ==
    [tenant_id |-> tenant_id, server_id |-> server_id, endpoint_url |-> endpoint_url]

NoLookup == [op |-> "none"]

\* PostgreSQL array_position(array, element): the first index of the element
array_position(array, element) ==
    CHOOSE i \in 1..Len(array) :
        /\ array[i] = element
        /\ \A j \in 1..(i - 1) : array[j] # element

\* The rows yielded first by ORDER BY array_position($1, tenant_id)
FirstByPosition(rows, tenant_ids) ==
    {r \in rows : \A q \in rows :
        array_position(tenant_ids, r.tenant_id) <= array_position(tenant_ids, q.tenant_id)}

\* mutant of get_tenant_api_keys_for_server: the keys of every matching
\* tenant are merged, an earlier tenant's value winning for a shared key name
get_tenant_api_keys_for_server_Merged(tenant_ids, server_id, up) ==
    IF tenant_ids = <<>> \/ server_id = "" THEN {}
    ELSE IF ~up THEN {}
    ELSE LET rows == {r \in tenant_server_keys :
                         InList(r.tenant_id, tenant_ids) /\ r.server_id = server_id}
             winners == {r \in rows : \A q \in rows :
                            q.key_name = r.key_name =>
                                array_position(tenant_ids, r.tenant_id)
                                    <= array_position(tenant_ids, q.tenant_id)}
         IN  {[key_name |-> r.key_name, key_value |-> r.key_value] : r \in winners}

\* db.get_tenant_api_keys_for_server: the dict key_name -> key_value, as its
\* set of items; {} when the query raises
get_tenant_api_keys_for_server(tenant_ids, server_id, up) ==
    IF tenant_ids = <<>> \/ server_id = "" THEN {}
    ELSE IF ~up THEN {}
    ELSE LET rows == {r \in tenant_server_keys :
                         InList(r.tenant_id, tenant_ids) /\ r.server_id = server_id}
         IN  IF rows = {} THEN {}
             ELSE LET first_tenant == (CHOOSE r \in FirstByPosition(rows, tenant_ids) : TRUE).tenant_id
                  IN  {[key_name |-> r.key_name, key_value |-> r.key_value] :
                          r \in {q \in rows : q.tenant_id = first_tenant}}

\* db.get_tenant_endpoint_override: the URL, or None; None when the query raises
get_tenant_endpoint_override(tenant_ids, server_id, up) ==
    IF tenant_ids = <<>> \/ server_id = "" THEN None
    ELSE IF ~up THEN None
    ELSE LET rows == {r \in tenant_server_endpoints :
                         InList(r.tenant_id, tenant_ids) /\ r.server_id = server_id}
         IN  IF rows = {} THEN None
             ELSE (CHOOSE r \in FirstByPosition(rows, tenant_ids) : TRUE).endpoint_url

\* db.set_tenant_api_key: INSERT ... ON CONFLICT (tenant_id, server_id, key_name) DO UPDATE
set_tenant_api_key ==
    /\ lookup = NoLookup
    /\ \E t \in CredentialTenants, s \in CredentialServers, k \in KeyNames, v \in KeyValues :
          LET kept == {r \in tenant_server_keys :
                          ~(r.tenant_id = t /\ r.server_id = s /\ r.key_name = k)}
          IN  /\ Cardinality(kept) + 1 + Cardinality(tenant_server_endpoints) <= MaxCredentialRows
              /\ tenant_server_keys' = kept \cup {KeyRow(t, s, k, v)}
    /\ UNCHANGED <<configVars, startupVars, identityVars, storeVars, accessVars, cacheVars, gatewayVars,
                   clientVars, tenant_server_endpoints, lookup>>

\* db.delete_tenant_api_key
delete_tenant_api_key ==
    /\ lookup = NoLookup
    /\ \E row \in tenant_server_keys : tenant_server_keys' = tenant_server_keys \ {row}
    /\ UNCHANGED <<configVars, startupVars, identityVars, storeVars, accessVars, cacheVars, gatewayVars,
                   clientVars, tenant_server_endpoints, lookup>>

\* db.set_tenant_endpoint_override: INSERT ... ON CONFLICT (tenant_id, server_id) DO UPDATE
set_tenant_endpoint_override ==
    /\ lookup = NoLookup
    /\ \E t \in CredentialTenants, s \in CredentialServers, u \in EndpointUrls :
          LET kept == {r \in tenant_server_endpoints : ~(r.tenant_id = t /\ r.server_id = s)}
          IN  /\ Cardinality(tenant_server_keys) + Cardinality(kept) + 1 <= MaxCredentialRows
              /\ tenant_server_endpoints' = kept \cup {EndpointRow(t, s, u)}
    /\ UNCHANGED <<configVars, startupVars, identityVars, storeVars, accessVars, cacheVars, gatewayVars,
                   clientVars, tenant_server_keys, lookup>>

\* db.delete_tenant_endpoint_override
delete_tenant_endpoint_override ==
    /\ lookup = NoLookup
    /\ \E row \in tenant_server_endpoints :
          tenant_server_endpoints' = tenant_server_endpoints \ {row}
    /\ UNCHANGED <<configVars, startupVars, identityVars, storeVars, accessVars, cacheVars, gatewayVars,
                   clientVars, tenant_server_keys, lookup>>

\* One call of db.get_tenant_api_keys_for_server
ResolveCredentials ==
    /\ lookup = NoLookup
    /\ \E tenant_ids \in CandidateLists, server_id \in CredentialServers \cup {""}, up \in BOOLEAN :
          lookup' = [op |-> "resolveCredentials", tenant_ids |-> tenant_ids,
                     server_id |-> server_id, up |-> up,
                     result |-> get_tenant_api_keys_for_server(tenant_ids, server_id, up)]
    /\ UNCHANGED <<configVars, startupVars, identityVars, storeVars, accessVars, cacheVars, gatewayVars,
                   clientVars, tenant_server_keys, tenant_server_endpoints>>

\* One call of db.get_tenant_endpoint_override
ResolveEndpointOverride ==
    /\ lookup = NoLookup
    /\ \E tenant_ids \in CandidateLists, server_id \in CredentialServers \cup {""}, up \in BOOLEAN :
          lookup' = [op |-> "resolveEndpointOverride", tenant_ids |-> tenant_ids,
                     server_id |-> server_id, up |-> up,
                     result |-> get_tenant_endpoint_override(tenant_ids, server_id, up)]
    /\ UNCHANGED <<configVars, startupVars, identityVars, storeVars, accessVars, cacheVars, gatewayVars,
                   clientVars, tenant_server_keys, tenant_server_endpoints>>

\* The call returned; nothing of it is kept
LookupDone ==
    /\ lookup # NoLookup
    /\ lookup' = NoLookup
    /\ UNCHANGED <<configVars, startupVars, identityVars, storeVars, accessVars, cacheVars, gatewayVars,
                   clientVars, tenant_server_keys, tenant_server_endpoints>>

InitCredentials ==
    /\ tenant_server_keys = {}
    /\ tenant_server_endpoints = {}
    /\ lookup = NoLookup

NextCredentials ==
    \/ set_tenant_api_key
    \/ delete_tenant_api_key
    \/ set_tenant_endpoint_override
    \/ delete_tenant_endpoint_override
    \/ ResolveCredentials
    \/ ResolveEndpointOverride
    \/ LookupDone

(***************************************************************************)
(* Claims about the per-tenant lookups                                     *)
(***************************************************************************)

\* The credential rows the store holds for a tenant and a backend, as items
CredentialsOf(tenantId, backendId) ==
    {[key_name |-> r.key_name, key_value |-> r.key_value] :
        r \in {q \in tenant_server_keys : q.tenant_id = tenantId /\ q.server_id = backendId}}

\* The override URLs the store holds for a tenant and a backend (at most one)
OverridesOf(tenantId, backendId) ==
    {r.endpoint_url :
        r \in {q \in tenant_server_endpoints : q.tenant_id = tenantId /\ q.server_id = backendId}}

\* C13: on a lookup the store answers, resolveCredentials returns exactly the
\* credential rows of the first candidate tenant, in the caller's order, that
\* has a row for the backend, and nothing when no candidate has one;
\* resolveEndpointOverride returns the override of the first candidate tenant
\* that has one, or none.
C13_FirstTenantWins ==
    /\ (lookup.op = "resolveCredentials" /\ lookup.up) =>
          LET ids == lookup.tenant_ids
              has(i) == CredentialsOf(ids[i], lookup.server_id) # {}
          IN  \/ /\ \A i \in 1..Len(ids) : ~has(i)
                 /\ lookup.result = {}
              \/ \E i \in 1..Len(ids) :
                    /\ has(i)
                    /\ \A j \in 1..(i - 1) : ~has(j)
                    /\ lookup.result = CredentialsOf(ids[i], lookup.server_id)
    /\ (lookup.op = "resolveEndpointOverride" /\ lookup.up) =>
          LET ids == lookup.tenant_ids
              has(i) == OverridesOf(ids[i], lookup.server_id) # {}
          IN  \/ /\ \A i \in 1..Len(ids) : ~has(i)
                 /\ lookup.result = None
              \/ \E i \in 1..Len(ids) :
                    /\ has(i)
                    /\ \A j \in 1..(i - 1) : ~has(j)
                    /\ OverridesOf(ids[i], lookup.server_id) = {lookup.result}

\* Both candidates hold rows for the backend, the second one a key the first
\* lacks: the two rows of the first were returned and nothing of the second
C13_Witness ==
    /\ lookup.op = "resolveCredentials"
    /\ lookup.up
    /\ lookup.tenant_ids = <<"Tenant-B", "Tenant-A">>
    /\ lookup.server_id = "github"
    /\ CredentialsOf("Tenant-B", "github") = {[key_name |-> "GITHUB_TOKEN", key_value |-> "kb"]}
    /\ CredentialsOf("Tenant-A", "github") =
           {[key_name |-> "GITHUB_TOKEN", key_value |-> "ka"],
            [key_name |-> "GITHUB_HOST", key_value |-> "ka"]}
    /\ lookup.result = {[key_name |-> "GITHUB_TOKEN", key_value |-> "kb"]}

(***************************************************************************)
(* Claims about routing and dispatch                                       *)
(***************************************************************************)

\* The response answers a POST of an execution path (not of a fixed route)
AnswersExecutionPath == "inbound" \in DOMAIN resp /\ resp.tool_name = None

\* The segments after the first, as the tool's path on the backend
RemainingSegments(path) ==
    CASE path = <<"github", "search_repositories">> -> "/search_repositories"
      [] path = <<"github", "repos", "list">>       -> "/repos/list"
      [] path = <<"linear", "list_issues">>         -> "/list_issues"
      [] path = <<"slack", "list_issues">>          -> "/list_issues"
      [] OTHER                                      -> "/"

\* The path is one segment that is the full prefixed name of a cached tool
IsCachedToolName(path) == Len(path) = 1 /\ \E t \in TOOLS_CACHE : t.name = path[1]

\* The call was resolved as a hierarchical call to the backend and tool path
HierarchicalTo(backendId, toolPath) ==
    /\ resp.route = "hierarchical"
    /\ resp.server_id = backendId
    /\ resp.call.backend_call => (resp.call.server_id = backendId /\ resp.call.path = toolPath)

\* The call was resolved as a flat call to the cached tool's backend and stored path
FlatTo(tool) ==
    /\ resp.route = "legacy"
    /\ resp.server_id = tool.tenant_id
    /\ resp.call.backend_call =>
          (resp.call.server_id = tool.tenant_id /\ resp.call.path = tool.original_path)

NotFound == resp.status = 404 /\ ~resp.call.backend_call

\* C14 as stated: an execution path is resolved as a hierarchical call when its
\* first segment is a known backend id, the remaining segments being the tool's
\* path; otherwise as a flat call when it equals a cached tool's full name,
\* with that tool's backend and stored path; otherwise it is answered 404.
C14_RoutingResolutionOrder ==
    AnswersExecutionPath =>
        LET path == resp.inbound
        IN  IF path[1] \in {"github", "linear", "slack"}
            THEN HierarchicalTo(path[1], RemainingSegments(path))
            ELSE IF IsCachedToolName(path)
            THEN \E t \in TOOLS_CACHE : t.name = path[1] /\ FlatTo(t)
            ELSE NotFound

\* C14 amended: a path of two segments or more is resolved as a hierarchical
\* call when its first segment is a known backend id, and is answered 404
\* otherwise; a path of one segment is resolved as a flat call when it equals a
\* cached tool's full name, and is answered 404 otherwise, also when the
\* segment is a known backend id.
C14_RoutingByPathShape ==
    AnswersExecutionPath =>
        LET path == resp.inbound
        IN  IF Len(path) >= 2
            THEN IF path[1] \in {"github", "linear", "slack"}
                 THEN HierarchicalTo(path[1], RemainingSegments(path))
                 ELSE NotFound
            ELSE IF IsCachedToolName(path)
                 THEN \E t \in TOOLS_CACHE : t.name = path[1] /\ FlatTo(t)
                 ELSE NotFound

\* POST /github_search_repositories was sent to backend github, path /search_repositories
C14_Witness ==
    /\ AnswersExecutionPath
    /\ resp.inbound = <<"github_search_repositories">>
    /\ resp.route = "legacy"
    /\ resp.call.backend_call
    /\ resp.call.server_id = "github"
    /\ resp.call.path = "/search_repositories"
    /\ resp.status = 200

\* The inbound body wraps its arguments: the value under "arguments" is an object
WrapsArguments(body) == body.wraps >= 2 \/ (body.wraps = 1 /\ body.leaf = "object")

\* The wrapped object of a body that wraps its arguments, the body itself otherwise
UnwrappedOnce(body) ==
    IF WrapsArguments(body) THEN [wraps |-> body.wraps - 1, leaf |-> body.leaf] ELSE body

\* C15: the body forwarded to the backend by a tool call is the inbound body
\* with an "arguments" wrapper removed exactly once (a body wrapped twice stays
\* wrapped once), and the inbound body itself when it has no wrapper.
C15_ArgumentNormalization ==
    (AnswersExecutionPath /\ resp.call.backend_call) =>
        resp.call.json = UnwrappedOnce(resp.body)

\* C16: when the listing-auth-required flag is true and no identity is
\* resolved, GET /servers answers 200 with total_servers 0, no server, no tier
\* group, and an explanatory message: neither an error nor the list.
C16_AnonymousListingBlocked ==
    (resp.route = "servers" /\ REQUIRE_AUTH_FOR_LISTING /\ resp.resolver = NoneUser) =>
        /\ resp.status = 200
        /\ resp.total_servers = 0
        /\ resp.listed = {}
        /\ DOMAIN resp.by_tier = {}
        /\ resp.message # None
        /\ ~resp.call.backend_call

\* A caller that was not identified was given the empty listing and the
\* message, while three backends are configured
C16_Witness ==
    /\ resp.route = "servers"
    /\ REQUIRE_AUTH_FOR_LISTING
    /\ resp.resolver = NoneUser
    /\ resp.total_servers = 0
    /\ resp.message # None
    /\ {"github", "linear", "slack"} \subseteq DOMAIN ALL_SERVERS

\* The backend a flat tool name is prefixed with ("-" when it is no tool name)
BackendOfName(name) ==
    CASE name \in {"github_search_repositories", "github_read_file", "github_health"} -> "github"
      [] name = "linear_list_issues" -> "linear"
      [] name = "slack_post_message" -> "slack"
      [] OTHER -> "-"

\* The backend the tool call is for
TargetedBackend ==
    IF resp.tool_name # None THEN BackendOfName(resp.tool_name)
    ELSE IF Len(resp.inbound) >= 2 THEN resp.inbound[1]
    ELSE BackendOfName(resp.inbound[1])

\* C17: a tool call for a disabled backend is answered 503 on every execution
\* route and for every caller, and no request is sent to the backend; on the
\* hierarchical route the answer is given before the identity is resolved and
\* before any access check.
C17_DisabledBackendUnavailable ==
    (/\ "inbound" \in DOMAIN resp
     /\ TargetedBackend \in {"github", "linear", "slack"}
     /\ ~ALL_SERVERS[TargetedBackend].enabled)
        => /\ resp.status = 503
           /\ ~resp.call.backend_call
           /\ resp.route = "hierarchical" => (resp.resolver = NotResolved /\ resp.check = "none")

(***************************************************************************)
(* Further claims about the protocol client                                *)
(***************************************************************************)

\* The call is inside initialize(): its POST or its notification is awaited
Initializing(c) == calls[c].pc \in {"init_wait", "notify_wait"}

\* C21: at most one initialize is in flight per endpoint: two calls to the
\* same endpoint URL that both found no usable session are never both inside
\* initialize.
C21_InitializeSerialized ==
    \A c \in Calls, d \in Calls :
        (c # d /\ Initializing(c) /\ Initializing(d)) =>
            calls[c].endpoint_url # calls[d].endpoint_url

(***************************************************************************)
(*                    STARTUP: THE LIFESPAN HANDLER (main.py)              *)
(***************************************************************************)

\* The defaults of CACHE_REFRESH_RETRIES and CACHE_REFRESH_DELAY (seconds)
CACHE_REFRESH_RETRIES == 3
CACHE_REFRESH_DELAY == 5

\* The lifespan handler: pc is "boot" before it runs, "refreshing" while an
\* attempt's refresh_tools_cache runs, "sleeping" in asyncio.sleep, "running"
\* once it has yielded and requests are served, "failed" when an exception
\* left it; attempts counts the calls of refresh_tools_cache, slept the delays
StartupState(pc, skip_cache, attempts, slept, loaded) ==
    [pc |-> pc, skip_cache |-> skip_cache, attempts |-> attempts, slept |-> slept,
     loaded |-> loaded]

\* The service is up and no startup is modelled
Serving == StartupState("running", FALSE, 0, 0, FALSE)

\* The sweep of the lifespan handler
StartupSweep == 1

\* lines 159-172: SKIP_CACHE_REFRESH is read; without it the first attempt
\* enters refresh_tools_cache (range(1, max_retries + 1) is not empty)
StartupBegins ==
    /\ startup.pc = "boot"
    /\ IF startup.skip_cache
       THEN /\ startup' = [startup EXCEPT !.pc = "running"]
            /\ UNCHANGED sweeps
       ELSE /\ startup' = [startup EXCEPT !.pc = "refreshing", !.attempts = 1]
            /\ sweeps' = [sweeps EXCEPT ![StartupSweep] =
                             [pc |-> "fetching", todo |-> EnabledServers]]
    /\ UNCHANGED <<configVars, credentialVars, identityVars, storeVars, accessVars,
                   served, TOOLS_CACHE, OPENAPI_SCHEMAS_CACHE, lastFetch, tool_embeddings,
                   gatewayVars, clientVars>>

\* lines 174-182: refresh_tools_cache returned; the loop breaks when a tool is
\* cached, sleeps when an attempt is left, and ends otherwise
StartupChecks ==
    /\ startup.pc = "refreshing"
    /\ sweeps[StartupSweep].pc = "idle"
    /\ startup' =
          IF TOOLS_CACHE # {}
          THEN [startup EXCEPT !.pc = "running", !.loaded = TRUE]
          ELSE IF startup.attempts < CACHE_REFRESH_RETRIES
          THEN [startup EXCEPT !.pc = "sleeping", !.slept = @ + 1]
          ELSE [startup EXCEPT !.pc = "running"]
    /\ UNCHANGED <<configVars, credentialVars, identityVars, storeVars, accessVars,
                   cacheVars, gatewayVars, clientVars>>

\* asyncio.sleep(retry_delay) is over: the next attempt enters refresh_tools_cache
StartupWakes ==
    /\ startup.pc = "sleeping"
    /\ startup' = [startup EXCEPT !.pc = "refreshing", !.attempts = @ + 1]
    /\ sweeps' = [sweeps EXCEPT ![StartupSweep] = [pc |-> "fetching", todo |-> EnabledServers]]
    /\ UNCHANGED <<configVars, credentialVars, identityVars, storeVars, accessVars,
                   served, TOOLS_CACHE, OPENAPI_SCHEMAS_CACHE, lastFetch, tool_embeddings,
                   gatewayVars, clientVars>>

\* refresh_tools_cache raised: nothing in lifespan catches the exception, the
\* application does not start
StartupFails ==
    /\ startup.pc = "refreshing"
    /\ sweeps[StartupSweep].pc = "raised"
    /\ startup' = [startup EXCEPT !.pc = "failed"]
    /\ sweeps' = [sweeps EXCEPT ![StartupSweep] = IdleSweep]
    /\ UNCHANGED <<configVars, credentialVars, identityVars, storeVars, accessVars,
                   served, TOOLS_CACHE, OPENAPI_SCHEMAS_CACHE, lastFetch, tool_embeddings,
                   gatewayVars, clientVars>>

\* POST /refresh, served once the lifespan handler has yielded (one at a time
\* here: concurrent sweeps are the subject of SpecRefresh)
ManualRefresh ==
    /\ startup.pc = "running"
    /\ RefreshStart(StartupSweep) \/ RefreshRaised(StartupSweep)

\* What the lifespan handler and its sweep do next; every await of them ends
\* (the fetch has a 3 s timeout, the sleep is 5 s)
StartupStep ==
    \/ StartupBegins
    \/ RefreshFetch(StartupSweep)
    \/ RefreshFetchRaises(StartupSweep)
    \/ RefreshReturn(StartupSweep)
    \/ StartupChecks
    \/ StartupWakes
    \/ StartupFails

InitStartup ==
    \E skip_cache \in BOOLEAN : startup = StartupState("boot", skip_cache, 0, 0, FALSE)

NextStartup ==
    \/ StartupBegins
    \/ StartupChecks
    \/ StartupWakes
    \/ StartupFails
    \/ ManualRefresh
    \/ RefreshFetch(StartupSweep)
    \/ RefreshFetchRaises(StartupSweep)
    \/ RefreshReturn(StartupSweep)
    \/ BackendChanges

(***************************************************************************)
(* Claims about startup                                                    *)
(***************************************************************************)

\* The attempts are at most N and stop at the first that leaves a tool cached;
\* the delay is waited between attempts only
StartupBounded ==
    /\ startup.attempts <= CACHE_REFRESH_RETRIES
    /\ startup.slept * CACHE_REFRESH_DELAY <= (CACHE_REFRESH_RETRIES - 1) * CACHE_REFRESH_DELAY
    /\ (startup.pc = "running" /\ startup.attempts > 0) =>
          /\ startup.slept = startup.attempts - 1
          /\ startup.attempts < CACHE_REFRESH_RETRIES => startup.loaded

\* C22: startup makes at most N = 3 refresh attempts and stops after the first
\* that leaves a tool cached; the 5 s delay is waited between attempts only;
\* and startup always completes: the service comes to serve requests, also
\* when the attempts leave the cache empty.
C22_StartupRetry ==
    /\ []StartupBounded
    /\ <>(startup.pc = "running")

(***************************************************************************)
(* Claims about the catalog in meta-tool mode                              *)
(***************************************************************************)

\* A description was built in meta-tool mode
MetaCatalogBuilt == resp.route = "openapi" /\ META_TOOLS_MODE

\* C23 (as stated): in meta-tool mode the description built for any caller
\* exposes exactly three routes, the three meta-tool routes, whatever the
\* number of cached tools.
C23_ExactlyThreeRoutes ==
    MetaCatalogBuilt =>
        /\ Cardinality(resp.listed) = 3
        /\ \A r \in resp.listed : r.kind = "meta"

\* C23 (amended): in meta-tool mode the description built for any caller
\* holds the three fixed service routes (/health, /servers, /refresh) and,
\* besides them, exactly the three meta-tool routes; it holds no per-tool and
\* no per-server route, so it is the same whatever the tools cached.
C23_MetaCatalogFixed ==
    MetaCatalogBuilt =>
        /\ resp.listed = FixedRoutes \cup MetaRoutes
        /\ Cardinality(resp.listed \ FixedRoutes) = 3
        /\ \A r \in resp.listed :
              r.kind \notin {"listing", "hierarchical", "flat", "component_schemas"}

\* A description was built in meta-tool mode for an identified caller while
\* tools of a server it can access were cached
C23_Witness ==
    /\ MetaCatalogBuilt
    /\ Identified(resp.user)
    /\ \E t \in TOOLS_CACHE : CanAccessBackend(resp.user, t.tenant_id)

(***************************************************************************)
(* Further claims about the identity resolver                              *)
(***************************************************************************)

\* Mode 3 was reached with a token that validates: no earlier mode answered
ValidatedInLocalTokenMode ==
    /\ request # NoRequest
    /\ ~HasEntraAssertion(request)
    /\ ~(API_GATEWAY_MODE /\ Truthy(request.XUserEmail))
    /\ ~TokenNotValidated(request)

\* The claims of the token of the request
ClaimsOfRequest == TokenTable(DropBearer(request.Authorization)).claims

\* C24 (as stated): for a request with a validated bearer token in local-token
\* mode, the resolved email is the token's email claim whenever the claims
\* include one.
C24_EmailFromClaim ==
    (ValidatedInLocalTokenMode /\ Truthy(ClaimsOfRequest.email)) =>
        /\ resolved # NoneUser
        /\ resolved.email = ClaimsOfRequest.email

\* C24 (amended): for a request with a validated bearer token in local-token
\* mode, the resolved email is the X-OpenWebUI-User-Email header when the
\* request carries one; without it, the token's email claim, or else its
\* preferred_username claim; only when the claims carry neither is the token's
\* user id resolved through the user table; and when that lookup yields
\* nothing (or the token declares no id) the result is Unauthenticated.
C24_EmailSource ==
    ValidatedInLocalTokenMode =>
        LET claims == ClaimsOfRequest
            found  == lookup_email_by_user_id(claims.id, request.authDbUp)
        IN  IF Truthy(request.XOpenWebUIUserEmail)
            THEN resolved # NoneUser /\ resolved.email = request.XOpenWebUIUserEmail
            ELSE IF Truthy(claims.email)
            THEN resolved # NoneUser /\ resolved.email = claims.email
                   /\ resolved.auth_method = "jwt_claims"
            ELSE IF Truthy(claims.preferred_username)
            THEN resolved # NoneUser /\ resolved.email = claims.preferred_username
            ELSE IF Truthy(claims.id) /\ Truthy(found)
            THEN resolved # NoneUser /\ resolved.email = found
                   /\ resolved.auth_method = "jwt_db_lookup"
            ELSE resolved = NoneUser

\* A valid token with an email claim came with another email in the header
C24_Witness ==
    /\ ValidatedInLocalTokenMode
    /\ request.Authorization = "Bearer tokEmail"
    /\ request.XOpenWebUIUserEmail = "erin@corp.com"
    /\ resolved # NoneUser
    /\ resolved.email = "erin@corp.com"

(***************************************************************************)
(* Further claims about the execution routes                               *)
(***************************************************************************)

\* C25: on every execution route the identity used for the access decision is
\* the result of the resolver for the request; when the resolver returns
\* Unauthenticated, no value supplied by the caller (a query parameter, a
\* header) is turned into an identity.
C25_IdentityOnlyFromResolver ==
    (resp.route \in {"hierarchical", "legacy", "call_tool"} /\ resp.resolver # NotResolved) =>
        resp.user = resp.resolver

\* The endpoint's cached session, NoSession when there is none
CachedSession(endpoint_url) == sessions[endpoint_url]

\* What the answer to an RPC POST of call c does, in one step of _request:
\* after a session-invalid status on the first attempt the cached session of
\* the endpoint is gone and initialize has been posted for the retry; after
\* any other answer nothing is invalidated and the call is over
AnswerHandled(c) ==
    LET before == calls[c]
        after  == calls'[c]
        status == after.statuses[Len(after.statuses)]
    IN  IF Len(before.statuses) = 0 /\ status \in {401, 403, 404, 409}
        THEN /\ after.invalidations = 1
             /\ CachedSession(before.endpoint_url)' = NoSession
             /\ after.pc = "init_wait"
             /\ after.reinits = 1
             /\ after.session_id = None
        ELSE /\ after.invalidations = before.invalidations
             /\ sessions' = sessions
             /\ after.pc \in {"returned", "raised"}
             /\ after.rpcSent = before.rpcSent

\* A call sends its RPC a second time only after a first answer of 401, 403,
\* 404 or 409, one invalidation and an initialize performed after it
RetryAfterReinitialize ==
    \A c \in Calls :
        calls[c] # IdleCall =>
            /\ calls[c].invalidations =
                  IF Len(calls[c].statuses) >= 1 /\ calls[c].statuses[1] \in {401, 403, 404, 409}
                  THEN 1 ELSE 0
            /\ calls[c].reinits <= calls[c].invalidations
            /\ calls[c].rpcSent = 2 =>
                  /\ calls[c].invalidations = 1
                  /\ calls[c].reinits = 1
                  /\ calls[c].inits >= 1

\* C26: within _request, the cached session of the endpoint is removed and the
\* call is retried exactly when the first attempt is answered 401, 403, 404 or
\* 409; the retry's session id comes from an initialize performed after that
\* answer; any other failing status neither invalidates the cached session nor
\* leads to a retry.
C26_InvalidateAndRetry ==
    /\ []RetryAfterReinitialize
    /\ [][\A c \in Calls :
             (calls[c].pc = "rpc_wait" /\ calls'[c] # calls[c]) => AnswerHandled(c)]_vars

\* A call was answered 403 or 404 on its first attempt and has sent its retry
\* with the session id of a new initialize, while another call, answered 500,
\* has raised without a retry
C26_Witness ==
    \E c \in Calls, d \in Calls :
        /\ calls[c] # IdleCall /\ calls[d] # IdleCall
        /\ Len(calls[c].statuses) >= 1
        /\ calls[c].statuses[1] \in {403, 404}
        /\ calls[c].rpcSent = 2
        /\ calls[c].reinits = 1
        /\ calls[c].session_id \in {"s1", "s2"}
        /\ calls[d].statuses = <<500>>
        /\ calls[d].pc = "raised"
        /\ calls[d].rpcSent = 1

\* The endpoint has a cached session whose age is below the TTL
FreshEntry(endpoint_url) ==
    /\ CachedSession(endpoint_url) # NoSession
    /\ now - CachedSession(endpoint_url).ts < SESSION_TTL

\* What _ensure_session does when call c enters _request: with a fresh entry
\* the RPC leaves with the cached id and no initialize is posted; otherwise
\* initialize is posted, no RPC has left, and an expired entry is gone
SessionEnsured(c) ==
    LET after == calls'[c]
        url   == after.endpoint_url
    IN  IF FreshEntry(url)
        THEN /\ after.pc = "rpc_wait"
             /\ after.session_id = CachedSession(url).session_id
             /\ after.inits = 0
             /\ sessions' = sessions
        ELSE /\ after.pc = "init_wait"
             /\ after.inits = 1
             /\ after.rpcSent = 0
             /\ sessions'[url] = NoSession

\* What the answer to initialize does to the cache: nothing when the status is
\* not 200 or 201 (initialize raises); otherwise the cached entry, if any, is
\* the id just received, stamped with the current time
InitializeCaches(c) ==
    IF calls'[c].pc = "raised"
    THEN sessions' = sessions
    ELSE /\ calls'[c].pc = "notify_wait"
         /\ \/ calls'[c].session_id = "" /\ sessions' = sessions
            \/ /\ calls'[c].session_id # ""
               /\ CachedSession(calls[c].endpoint_url)' =
                     [session_id |-> calls'[c].session_id, ts |-> now]

\* C27: _ensure_session returns the cached session id without an initialize
\* exactly when the endpoint has an entry whose age is below SESSION_TTL
\* (3600 s); an absent or expired entry leads to initialize and the expired
\* entry is removed, so an id whose age has reached the TTL is not taken from
\* the cache for a request; an initialize answered with a status other than
\* 200 and 201 caches nothing.
C27_SessionReuseAndExpiry ==
    [][\A c \in Calls :
          /\ (calls[c] = IdleCall /\ calls'[c] # IdleCall) => SessionEnsured(c)
          /\ (calls[c].pc = "init_wait" /\ calls'[c] # calls[c]) => InitializeCaches(c)]_vars

\* A call found no usable session an hour after another call had cached one
\* and returned: it waits for the answer to its initialize, and the expired
\* entry is gone
C27_Witness ==
    \E c \in Calls, d \in Calls :
        /\ now >= SESSION_TTL
        /\ calls[d].pc = "returned"
        /\ calls[d].statuses = <<200>>
        /\ calls[d].inits = 1
        /\ calls[d].session_id \in {"s1", "s2"}
        /\ calls[c].pc = "init_wait"
        /\ calls[c].invalidations = 0
        /\ CachedSession(calls[c].endpoint_url) = NoSession

(***************************************************************************)
(* Further claims about the tool cache                                     *)
(***************************************************************************)

\* The operations refresh_tools_cache discovers in a description
DiscoveredOperations(openapi) ==
    {o \in openapi : o.method = "post" /\ o.path \notin SkippedPaths}

\* C28: after a fetch of a refresh has stored a backend's description, every
\* operation discovered in it has its own cache entry, named
\* server_id + "_" + original_name, so two distinct discovered operations never
\* share a cache name and none overwrites another; and a cache name determines
\* one server_id and one original_path.
C28_UniqueToolNames ==
    /\ (lastFetch # NoFetch /\ lastFetch.ok) =>
          \A o \in DiscoveredOperations(lastFetch.openapi) :
              \E t \in TOOLS_CACHE :
                  /\ t.tenant_id = lastFetch.server_id
                  /\ t.original_path = o.path
                  /\ t.name = ToolName(lastFetch.server_id, OriginalName(o.path))
    /\ \A t \in TOOLS_CACHE, u \in TOOLS_CACHE : t.name = u.name => t = u

\* The cached tool a flat path names
ToolOfFlatPath == CHOOSE t \in TOOLS_CACHE : t.name = resp.inbound[1]

\* C29: for every cached tool and every request body, the flat route
\* POST /<server_id>_<original_name> sends the backend what the hierarchical
\* route POST /<server_id>/<original_name> sends for that body: the same
\* arguments, to the same backend and path.
C29_FlatEqualsHierarchical ==
    (/\ AnswersExecutionPath
     /\ resp.route = "legacy"
     /\ resp.call.backend_call)
        => LET t == ToolOfFlatPath
               hierarchical == execute_on_server(t.tenant_id, t.original_name,
                                                 unwrap_arguments(resp.body))
           IN  /\ resp.call.server_id = hierarchical.server_id
               /\ resp.call.path = hierarchical.path
               /\ resp.call.json = hierarchical.json

(***************************************************************************)
(* Further claims about access control                                     *)
(***************************************************************************)

\* What the rows of AccessStore grant a caller for a backend, the tables that
\* cannot be read granting nothing
GrantedByStore(email, groups, backendId, groupUp, userUp) ==
    \/ InList(OverrideGroup, groups)
    \/ groups # <<>> /\ groupUp /\ HoldsGroupMapping(groups, backendId)
    \/ userUp /\ HoldsUserRow(email, backendId)

\* C30: every evaluation of canAccess and of listAccessibleBackends answers
\* from the rows AccessStore holds when the call starts: whatever was decided
\* before, a check that starts after an administrative write has committed
\* reflects the write.
C30_NeverStale ==
    [][(access = NoAccessCall /\ access' # NoAccessCall) =>
          IF access'.op = "canAccess"
          THEN access'.result =
                   GrantedByStore(access'.user_email, access'.entra_groups, access'.tenant_id,
                                  access'.groupUp, access'.userUp)
          ELSE access'.result =
                   {b \in ServerIds :
                       GrantedByStore(access'.user_email, access'.entra_groups, b,
                                      access'.groupUp, access'.userUp)}]_vars

\* An administrator added rows after the process had started with none; a
\* listing that started afterwards holds exactly the backend the caller's user
\* row grants, and not the backend mapped to a group the caller is not in
C30_Witness ==
    /\ access.op = "listAccessible"
    /\ access.user_email = "erin@corp.com"
    /\ access.entra_groups = <<"GA">>
    /\ access.groupUp /\ access.userUp
    /\ group_tenant_mapping = {[group_name |-> "GB", tenant_id |-> "github"]}
    /\ user_tenant_access = {[user_email |-> "ERIN@corp.com", tenant_id |-> "linear"]}
    /\ access.result = {"linear"}

(***************************************************************************)
(*                           SPECIFICATIONS                                *)
(* One per component; each starts the other components at rest.            *)
(***************************************************************************)

\* The cache before the first sweep, the servers serving one description each
InitCacheAtRest ==
    /\ InitCache
    /\ served["github"] = {Op("/read_file", "post")}
    /\ served["linear"] = {Op("/list_issues", "post")}

InitIdentitySpec ==
    /\ API_GATEWAY_MODE \in BOOLEAN
    /\ WEBUI_SECRET_KEY \in {"", "secret"}
    /\ REQUIRE_AUTH_FOR_LISTING = TRUE
    /\ META_TOOLS_MODE = FALSE
    /\ InitIdentity
    /\ InitStore
    /\ InitAccess
    /\ InitCacheAtRest
    /\ InitGateway
    /\ InitClient
    /\ InitCredentials
    /\ startup = Serving

SpecIdentity == InitIdentitySpec /\ [][NextIdentity]_vars

InitAccessSpec ==
    /\ API_GATEWAY_MODE = FALSE
    /\ WEBUI_SECRET_KEY = "secret"
    /\ REQUIRE_AUTH_FOR_LISTING = TRUE
    /\ META_TOOLS_MODE = FALSE
    /\ InitIdentity
    /\ InitStore
    /\ InitAccess
    /\ InitCacheAtRest
    /\ InitGateway
    /\ InitClient
    /\ InitCredentials
    /\ startup = Serving

SpecAccess == InitAccessSpec /\ [][NextAccess]_vars

InitRefreshSpec ==
    /\ API_GATEWAY_MODE = FALSE
    /\ WEBUI_SECRET_KEY = "secret"
    /\ REQUIRE_AUTH_FOR_LISTING = TRUE
    /\ META_TOOLS_MODE = FALSE
    /\ InitIdentity
    /\ InitStore
    /\ InitAccess
    /\ InitCache
    /\ InitGateway
    /\ InitClient
    /\ InitCredentials
    /\ startup = Serving

SpecRefresh == InitRefreshSpec /\ [][NextRefresh]_vars

InitGatewaySpec ==
    /\ API_GATEWAY_MODE \in BOOLEAN
    /\ WEBUI_SECRET_KEY = "secret"
    /\ REQUIRE_AUTH_FOR_LISTING \in BOOLEAN
    /\ META_TOOLS_MODE \in BOOLEAN
    /\ InitIdentity
    /\ \E store \in GatewayStores :
          /\ group_tenant_mapping = store.groups
          /\ user_tenant_access = store.users
    /\ InitAccess
    /\ InitGatewayCache
    /\ InitGateway
    /\ InitClient
    /\ InitCredentials
    /\ startup = Serving

SpecGateway == InitGatewaySpec /\ [][NextGateway]_vars

InitClientSpec ==
    /\ API_GATEWAY_MODE = FALSE
    /\ WEBUI_SECRET_KEY = "secret"
    /\ REQUIRE_AUTH_FOR_LISTING = TRUE
    /\ META_TOOLS_MODE = FALSE
    /\ InitIdentity
    /\ InitStore
    /\ InitAccess
    /\ InitCacheAtRest
    /\ InitGateway
    /\ InitClient
    /\ InitCredentials
    /\ startup = Serving

SpecClient ==
    /\ InitClientSpec
    /\ [][NextClient]_vars
    /\ \A c \in Calls : WF_vars(ClientStep(c))

InitCredentialsSpec ==
    /\ API_GATEWAY_MODE = FALSE
    /\ WEBUI_SECRET_KEY = "secret"
    /\ REQUIRE_AUTH_FOR_LISTING = TRUE
    /\ META_TOOLS_MODE = FALSE
    /\ InitIdentity
    /\ InitStore
    /\ InitAccess
    /\ InitCacheAtRest
    /\ InitGateway
    /\ InitClient
    /\ InitCredentials
    /\ startup = Serving

SpecCredentials == InitCredentialsSpec /\ [][NextCredentials]_vars

InitStartupSpec ==
    /\ API_GATEWAY_MODE = FALSE
    /\ WEBUI_SECRET_KEY = "secret"
    /\ REQUIRE_AUTH_FOR_LISTING = TRUE
    /\ META_TOOLS_MODE = FALSE
    /\ InitIdentity
    /\ InitStore
    /\ InitAccess
    /\ InitCache
    /\ InitGateway
    /\ InitClient
    /\ InitCredentials
    /\ InitStartup

SpecStartup == InitStartupSpec /\ [][NextStartup]_vars /\ WF_vars(StartupStep)

====
